---- MODULE Spec2Model ----
(***************************************************************************)
(* State-machine model of the gt_trading_client package:                   *)
(*   raw_orderbook.py       OrderBook (two-sided sorted price -> volume)   *)
(*   filtered_orderbook.py  FilteredOrderBook (raw book minus own orders)  *)
(*   user_portfolio.py      UserPortfolio (balance, positions, orders)     *)
(*   prioritizer.py         Prioritizer (sliding-window rate limiter)      *)
(*   trading_client.py      TradingClient (place_limit, place_market,      *)
(*                          remove_all)                                    *)
(*   websocket_client.py    WebSocketClient (subscription, read task)      *)
(*                                                                         *)
(* Prices and volumes are Python floats in the source; the model uses the  *)
(* integers the wire tokens below denote, and exact fractions [num, den]   *)
(* for the results of mid and wmid and for averagePrice.                   *)
(***************************************************************************)
EXTENDS Integers, Sequences, FiniteSets, TLC

VARIABLES
    raw_orderbooks,   \* FilteredOrderBook._orderbook._orderbooks (the raw book)
    orderbooks,       \* FilteredOrderBook._orderbooks (the filtered snapshot)
    aliased,          \* TRUE while _orderbooks is still the raw book's own dict
    orders,           \* UserPortfolio._orders: ticker -> list of Order
    lastResult,       \* outcome of the last FilteredOrderBook.update_volumes call
    lastSkipped,      \* number of open orders the last filtering pass skipped
    fresh,            \* no open-order change since the last update_volumes call
    nBatches,         \* number of update_volumes calls made so far
    lastNamed,        \* history: key -> volume of the last successful update naming it
    everFailed,       \* history: some update_volumes call has raised
    window,           \* Prioritizer._rate_limit_window (deque of timestamps)
    now,              \* the clock read by time.time(), in ticks
    sent,             \* commands forwarded to the trading client: <<kind, tick, call>>
    dropped,          \* number of commands rejected by the rate limit
    issued,           \* history: the Prioritizer calls made, in order
    subscribed,       \* WebSocketClient._subscribed: 0 is None, i the Event of call i
    events,           \* the Events that are set
    task,             \* WebSocketClient._task: 0 is unassigned, i the task of call i
    ws,               \* WebSocketClient._ws: 0 is None, t the socket task t holds
    callers,          \* the subscribe() coroutines, one per call
    tasks,            \* the _subscribe_ws tasks, one per call that created one
    unsub,            \* the unsubscribe() coroutine
    unsubDone,        \* history: unsubscribe() completed, no subscribe() during or since
    faults,           \* number of faults the venue and the network have injected
    nMsgs,            \* number of inbound messages delivered
    signalled,        \* history: the frames sent on a socket when set() was called
    plain,            \* reference: a plain OrderBook fed the same snapshot and batches
    balance,          \* UserPortfolio._balance
    pnl,              \* UserPortfolio._pnl
    positions,        \* UserPortfolio._positions: ticker -> quantity, averagePrice
    lastOp,           \* history: the last call that wrote the portfolio, and its outcome
    strategy,         \* WebSocketClient._strategy is set (set_strategy was called)
    created,          \* coroutine objects made by calling the strategy callbacks
    ran,              \* history: the strategy callback bodies that have run
    cmds              \* the detached tasks running Prioritizer commands

bookVars == <<raw_orderbooks, orderbooks, aliased, orders, lastResult,
              lastSkipped, fresh, nBatches, lastNamed, everFailed, plain>>
rateVars == <<window, now, sent, dropped, issued>>
wsVars == <<subscribed, events, task, ws, callers, tasks, unsub, unsubDone,
            faults, nMsgs, signalled>>
portfolioVars == <<balance, pnl, positions, lastOp>>
strategyVars == <<strategy, created, ran>>
clientVars == <<portfolioVars, strategyVars, cmds>>
vars == <<raw_orderbooks, orderbooks, aliased, orders, lastResult, lastSkipped,
          fresh, nBatches, lastNamed, everFailed, window, now, sent, dropped, issued,
          subscribed, events, task, ws, callers, tasks, unsub, unsubDone,
          faults, nMsgs, signalled, plain, balance, pnl, positions, lastOp, strategy,
          created, ran, cmds>>

----------------------------------------------------------------------------
(* Bounds of the model *)

\* number of calls that write the portfolio in one behaviour
MaxPortfolioOps == 3
\* longest update batch of one order-book message
MaxBatchLen == 2
\* number of order-book messages applied in one behaviour
MaxBatches == 2
\* number of open orders the portfolio holds at once
MaxOrders == 2
\* the rate_limit the Prioritizer is constructed with
RateLimit == 2
\* clock ticks per second: time.time() is read in units of 1/TicksPerSecond s
TicksPerSecond == 2
\* last tick of the clock
MaxTime == 4
\* number of commands issued to the Prioritizer in one behaviour
MaxCommands == 4
\* number of subscribe() calls made in one behaviour
MaxSubscribes == 2
\* number of faults (refused connection, failed send, closed socket) injected
MaxFaults == 1
\* number of inbound messages delivered in one behaviour
MaxMessages == 2

NoneVal == "None"

----------------------------------------------------------------------------
(* Wire values *)

\* float(x) on the numerals that occur on the wire
Float(tok) ==
    CASE tok = "0" -> 0
      [] tok = "3" -> 3
      [] tok = "5" -> 5
      [] tok = "10" -> 10
      [] tok = "10.0" -> 10
      [] tok = "11" -> 11
      [] tok = "12" -> 12
      [] tok = "12.0" -> 12

\* str.upper() on the side names that occur on the wire
Upper(s) ==
    CASE s = "bid" -> "BID"
      [] s = "BID" -> "BID"
      [] s = "ask" -> "ASK"
      [] s = "ASK" -> "ASK"
      [] s = "hold" -> "HOLD"

Tickers == {"A", "B"}
Sides == {"BID", "ASK"}
Prices == {10, 11, 12}

Upd(t, p, s, v) == [ticker |-> t, price |-> p, side |-> s, volume |-> v]

\* the update entries an order-book message may carry: well-formed ones in
\* several spellings, one with an unknown side, one without its volume
WireUpdates ==
    { Upd("A", "10", "bid", "5"), Upd("A", "10.0", "BID", "3"), Upd("A", "10", "bid", "0"),
      Upd("A", "12", "bid", "5"), Upd("A", "12.0", "ask", "3"),
      Upd("B", "12", "ASK", "5"),
      Upd("B", "10", "hold", "5"),
      [ticker |-> "B", price |-> "10", side |-> "bid"] }

\* the batches of at most MaxBatchLen entries
Batches == UNION {[1..n -> WireUpdates] : n \in 0..MaxBatchLen}

\* a raw snapshot: ticker -> {"bidVolumes": items, "askVolumes": items}, the
\* items of each JSON object in document order
EmptyDict == [t \in {} |-> NoneVal]
Snapshots ==
    { EmptyDict,
      [t \in {"A"} |-> [bidVolumes |-> << <<"10.0", "3">>, <<"10", "5">> >>,
                        askVolumes |-> << <<"12", "3">> >>]],
      [t \in {"A"} |-> [bidVolumes |-> << <<"10", "5">>, <<"12", "3">>, <<"11", "5">> >>,
                        askVolumes |-> << <<"11", "3">>, <<"10", "5">> >>]],
      [t \in {"A"} |-> [bidVolumes |-> << <<"10", "0">> >>]] }

----------------------------------------------------------------------------
(* SortedDict: a sequence of <<price, volume>> in iteration order *)

\* the key function of the SortedDict: lambda x: -x for bids, identity for asks
SortKeyAscending(reverse, p) == p
SortKey(reverse, p) == IF reverse THEN 0 - p ELSE p

SDContains(sd, p) == \E i \in 1..Len(sd) : sd[i][1] = p

SDGet(sd, p) == LET i == CHOOSE j \in 1..Len(sd) : sd[j][1] = p IN sd[i][2]

\* sd[p] = v: overwrite in place, or insert at the position the key gives
SDSet(sd, p, v, reverse) ==
    IF SDContains(sd, p)
    THEN [i \in 1..Len(sd) |-> IF sd[i][1] = p THEN <<p, v>> ELSE sd[i]]
    ELSE LET before == SelectSeq(sd, LAMBDA e : SortKey(reverse, e[1]) < SortKey(reverse, p))
             after == SelectSeq(sd, LAMBDA e : SortKey(reverse, e[1]) > SortKey(reverse, p))
         IN  before \o << <<p, v>> >> \o after

\* sd.pop(p, None)
SDPop(sd, p) == SelectSeq(sd, LAMBDA e : e[1] # p)

RECURSIVE SDFromItems(_, _, _)
SDFromItems(items, i, reverse) ==
    IF i = 0 THEN <<>>
    ELSE SDSet(SDFromItems(items, i - 1, reverse),
               Float(items[i][1]), Float(items[i][2]), reverse)

\* OrderBook._create_sorted_dict
create_sorted_dict(volumes, reverse) == SDFromItems(volumes, Len(volumes), reverse)

\* dict.get(key, {}) on one ticker's snapshot entry
GetItems(volumes, key) == IF key \in DOMAIN volumes THEN volumes[key] ELSE <<>>

\* OrderBook.__init__
OrderBookInit(raw_order_book) ==
    [t \in DOMAIN raw_order_book |->
        [bids |-> create_sorted_dict(GetItems(raw_order_book[t], "bidVolumes"), TRUE),
         asks |-> create_sorted_dict(GetItems(raw_order_book[t], "askVolumes"), FALSE)]]

----------------------------------------------------------------------------
(* OrderBook.update_volumes *)

WellFormed(update) ==
    /\ "ticker" \in DOMAIN update
    /\ "price" \in DOMAIN update
    /\ "side" \in DOMAIN update
    /\ "volume" \in DOMAIN update

\* the ticker is created without its two sides (a plausible slip)
WithTickerBare(book, t) ==
    IF t \in DOMAIN book THEN book
    ELSE [u \in DOMAIN book \cup {t} |-> IF u = t THEN EmptyDict ELSE book[u]]
\* the book with ticker t present (an empty two-sided book when it is new)
WithTicker(book, t) ==
    IF t \in DOMAIN book THEN book
    ELSE [u \in DOMAIN book \cup {t} |->
            IF u = t THEN [bids |-> create_sorted_dict(<<>>, TRUE),
                           asks |-> create_sorted_dict(<<>>, FALSE)]
            ELSE book[u]]

\* volume is a delta added to the level (a plausible slip)
SetLevelDelta(sd, price, volume, reverse) ==
    IF volume = 0 THEN SDPop(sd, price)
    ELSE SDSet(sd, price, (IF SDContains(sd, price) THEN SDGet(sd, price) ELSE 0) + volume,
               reverse)
\* one side's branch: pop on volume 0, else absolute assignment
SetLevel(sd, price, volume, reverse) ==
    IF volume = 0 THEN SDPop(sd, price) ELSE SDSet(sd, price, volume, reverse)

\* the body of the for loop for one well-formed update; err is the ValueError
\* of the final else branch, raised after the ticker has been created
ApplyUpdate(book, update) ==
    LET ticker == update["ticker"]
        price == Float(update["price"])
        side == Upper(update["side"])
        volume == Float(update["volume"])
        b1 == WithTicker(book, ticker)
    IN  IF side = "BID"
        THEN [book |-> [b1 EXCEPT ![ticker].bids = SetLevel(@, price, volume, TRUE)],
              err |-> NoneVal]
        ELSE IF side = "ASK"
        THEN [book |-> [b1 EXCEPT ![ticker].asks = SetLevel(@, price, volume, FALSE)],
              err |-> NoneVal]
        ELSE [book |-> b1, err |-> "ValueError_side"]

\* the for loop from entry i on: each entry is validated when the loop reaches
\* it, after the entries before it have been applied
RECURSIVE UpdateLoop(_, _, _)
UpdateLoop(book, updates, i) ==
    IF i > Len(updates) THEN [book |-> book, err |-> NoneVal]
    ELSE IF ~WellFormed(updates[i]) THEN [book |-> book, err |-> "ValueError_keys"]
    ELSE LET r == ApplyUpdate(book, updates[i])
         IN  IF r.err # NoneVal THEN r ELSE UpdateLoop(r.book, updates, i + 1)

\* OrderBook.update_volumes: the book it leaves and the exception it raises
update_volumes(book, updates) == UpdateLoop(book, updates, 1)

----------------------------------------------------------------------------
(* OrderBook queries, on either view: book is raw_orderbooks or orderbooks *)

\* an absent result (None) of best_bid / best_ask is the empty tuple
NoLevel == <<>>
\* results of mid, wmid and spread: None, a fraction num/den, or the
\* ZeroDivisionError a float division by 0.0 raises
NoValue == [kind |-> "None", num |-> 0, den |-> 1]
Value(n, d) == [kind |-> "value", num |-> n, den |-> d]
DivisionError == [kind |-> "ZeroDivisionError", num |-> 0, den |-> 0]
Div(n, d) == IF d = 0 THEN DivisionError ELSE Value(n, d)

\* OrderBook.best_bid: peekitem(index=0) of a non-empty side
best_bid(book, ticker) ==
    IF book[ticker].bids # <<>> THEN book[ticker].bids[1] ELSE NoLevel

\* OrderBook.best_ask
best_ask(book, ticker) ==
    IF book[ticker].asks # <<>> THEN book[ticker].asks[1] ELSE NoLevel

\* OrderBook.mid
mid(book, ticker) ==
    LET bb == best_bid(book, ticker)
        ba == best_ask(book, ticker)
    IN  IF bb = NoLevel \/ ba = NoLevel THEN NoValue
        ELSE Div(bb[1] + ba[1], 2)

\* the weights on the wrong sides (a plausible slip)
wmidSameSide(book, ticker) ==
    LET bb == best_bid(book, ticker)
        ba == best_ask(book, ticker)
    IN  IF bb = NoLevel \/ ba = NoLevel THEN NoValue
        ELSE Div(bb[1] * bb[2] + ba[1] * ba[2], bb[2] + ba[2])
\* OrderBook.wmid
wmid(book, ticker) ==
    LET bb == best_bid(book, ticker)
        ba == best_ask(book, ticker)
    IN  IF bb = NoLevel \/ ba = NoLevel THEN NoValue
        ELSE Div(bb[1] * ba[2] + ba[1] * bb[2], bb[2] + ba[2])

\* OrderBook.spread
spread(book, ticker) ==
    LET bb == best_bid(book, ticker)
        ba == best_ask(book, ticker)
    IN  IF bb = NoLevel \/ ba = NoLevel THEN NoValue
        ELSE Value(ba[1] - bb[1], 1)

----------------------------------------------------------------------------
(* UserPortfolio: the open orders *)

Order(t, p, v, s, i) == [ticker |-> t, price |-> p, volume |-> v, side |-> s, id |-> i]

\* the orders a limit-order response or a portfolio push may leave resting:
\* <<ticker, price, volume, side>>
OrderInputs ==
    { <<"A", 10, 2, "BID">>, <<"A", 10, 5, "BID">>, <<"A", 12, 3, "ASK">>,
      <<"B", 10, 2, "BID">> }

RECURSIVE SumLens(_, _)
SumLens(d, S) ==
    IF S = {} THEN 0
    ELSE LET t == CHOOSE x \in S : TRUE IN Len(d[t]) + SumLens(d, S \ {t})

\* number of open orders over all tickers
OrderCount(d) == SumLens(d, DOMAIN d)

\* UserPortfolio.add_order
add_order(d, order) ==
    IF order.ticker \in DOMAIN d
    THEN [d EXCEPT ![order.ticker] = Append(@, order)]
    ELSE [t \in DOMAIN d \cup {order.ticker} |->
            IF t = order.ticker THEN <<order>> ELSE d[t]]

\* the tracked orders are left as they are (a plausible slip)
clear_orders_Kept(d) == d
\* UserPortfolio.clear_orders
clear_orders(d) == EmptyDict

----------------------------------------------------------------------------
(* UserPortfolio: balance, pnl, positions and the portfolio push *)

\* orders.values() and orders.items(), list by list.  Every order is filed under its own ticker
\* (add_order, update_portfolio), and an order only touches its ticker's book,
\* so the tickers are walked in a fixed order.
TickerOrder == <<"A", "B">>

\* averagePrice is kept as an exact fraction num/den in lowest terms
RECURSIVE Gcd(_, _)
Gcd(a, b) == IF b = 0 THEN a ELSE Gcd(b, a % b)
Abs(x) == IF x < 0 THEN 0 - x ELSE x
Rat(n, d) ==
    LET g == Gcd(Abs(n), Abs(d))
        s == IF d < 0 THEN 0 - 1 ELSE 1
    IN  [num |-> (s * n) \div g, den |-> (s * d) \div g]

\* a value of _positions: {"quantity": q, "averagePrice": a}
Position(q, a) == [quantity |-> q, averagePrice |-> a]

\* the average is left as it was on a flat position (a plausible slip: the
\* branch of line 84 guarding only the division)
AverageWhenFlatKept(old) == old
\* the averagePrice add_position stores when quantity has become 0 (line 85)
AverageWhenFlat(old) == Rat(0, 1)

\* UserPortfolio.add_position
add_position(pos, ticker, position_delta, price) ==
    LET old == IF ticker \in DOMAIN pos THEN pos[ticker] ELSE Position(0, Rat(0, 1))
        \* averagePrice *= quantity; averagePrice += position_delta * price
        num == old.averagePrice.num * old.quantity
                  + position_delta * price * old.averagePrice.den
        den == old.averagePrice.den
        quantity == old.quantity + position_delta
        new == IF quantity = 0
               THEN Position(0, AverageWhenFlat(old.averagePrice))
               ELSE Position(quantity, Rat(num, den * quantity))
    IN  [t \in DOMAIN pos \cup {ticker} |-> IF t = ticker THEN new ELSE pos[t]]

\* the state of a UserPortfolio
PortfolioOf(b, p, pos, ord) ==
    [balance |-> b, pnl |-> p, positions |-> pos, orders |-> ord]

\* message.get(key, default)
Get(message, key, default) ==
    IF key \in DOMAIN message THEN message[key] ELSE default

\* the keys update_portfolio reads from an entry of "Orders"
OrderFields == {"volume", "price", "side", "orderId"}

\* update_portfolio, lines 43-53: the loop over orders.items() from entry k
\* of ticker TickerOrder[i], `acc` being self._orders so far; the loop ends
\* with the KeyError of the first entry that lacks a field
RECURSIVE BuildOrders(_, _, _, _)
BuildOrders(wire, acc, i, k) ==
    IF i > Len(TickerOrder) THEN [orders |-> acc, err |-> NoneVal]
    ELSE LET t == TickerOrder[i]
         IN  IF t \notin DOMAIN wire THEN BuildOrders(wire, acc, i + 1, 1)
             ELSE LET started == IF k = 1
                                 THEN [x \in DOMAIN acc \cup {t} |->
                                          IF x = t THEN <<>> ELSE acc[x]]
                                 ELSE acc
                  IN  IF k > Len(wire[t]) THEN BuildOrders(wire, started, i + 1, 1)
                      ELSE IF ~(OrderFields \subseteq DOMAIN wire[t][k])
                      THEN [orders |-> started, err |-> "KeyError"]
                      ELSE BuildOrders(wire,
                               [started EXCEPT ![t] =
                                   Append(@, Order(t, wire[t][k].price, wire[t][k].volume,
                                                   wire[t][k].side, wire[t][k].orderId))],
                               i, k + 1)

\* the open orders of before are kept (a plausible slip: line 39 left out)
OrdersKept(old) == old
\* `self._orders = {}` (line 39)
OrdersReset(old) == EmptyDict

\* a field the message leaves out keeps its value (a plausible slip:
\* message.get(key, self._field))
DefaultPrior(prior, default) == prior
\* the default of message.get(key, default) (lines 35-37): a literal, whatever
\* the field held before
Default(prior, default) == default

\* UserPortfolio.update_portfolio on the portfolio p: the portfolio it leaves
\* and the exception it raises.  A message is [type, value], type being what
\* isinstance sees.
update_portfolio(p, message) ==
    IF message.type # "dict"
    THEN [portfolio |-> p, err |-> NoneVal]
    ELSE LET built == IF "Orders" \in DOMAIN message.value
                      THEN BuildOrders(message.value.Orders, OrdersReset(p.orders), 1, 1)
                      ELSE [orders |-> OrdersReset(p.orders), err |-> NoneVal]
         IN  [portfolio |->
                 PortfolioOf(Get(message.value, "balance", Default(p.balance, 0)),
                             Get(message.value, "pnl", Default(p.pnl, 0)),
                             Get(message.value, "positions",
                                 Default(p.positions, EmptyDict)),
                             built.orders),
              err |-> built.err]

----------------------------------------------------------------------------
(* FilteredOrderBook.update_volumes *)

\* the open orders of the tickers from TickerOrder[i] on, in one list
RECURSIVE AllOrdersFrom(_, _)
AllOrdersFrom(d, i) ==
    IF i > Len(TickerOrder) THEN <<>>
    ELSE (IF TickerOrder[i] \in DOMAIN d THEN d[TickerOrder[i]] ELSE <<>>)
            \o AllOrdersFrom(d, i + 1)
AllOrders(d) == AllOrdersFrom(d, 1)

\* level -= order.volume, popped when the result is exactly 0
Decrement(sd, price, volume, reverse) ==
    LET v == SDGet(sd, price) - volume
    IN  IF v = 0 THEN SDPop(sd, price) ELSE SDSet(sd, price, v, reverse)

\* an order at an absent level creates the level (a plausible slip)
FilterOrderCreating(book, order) ==
    IF order.ticker \in DOMAIN book
    THEN IF order.side = "BID"
         THEN [book |-> [book EXCEPT ![order.ticker].bids =
                            SDSet(@, order.price,
                                  (IF SDContains(@, order.price)
                                   THEN SDGet(@, order.price) ELSE 0) - order.volume, TRUE)],
               skipped |-> 0]
         ELSE [book |-> [book EXCEPT ![order.ticker].asks =
                            SDSet(@, order.price,
                                  (IF SDContains(@, order.price)
                                   THEN SDGet(@, order.price) ELSE 0) - order.volume, FALSE)],
               skipped |-> 0]
    ELSE [book |-> book, skipped |-> 1]
\* ask orders are not subtracted (a plausible slip)
FilterOrderBidsOnly(book, order) ==
    IF order.ticker \in DOMAIN book /\ order.side = "BID"
           /\ SDContains(book[order.ticker].bids, order.price)
    THEN [book |-> [book EXCEPT ![order.ticker].bids =
                        Decrement(@, order.price, order.volume, TRUE)],
          skipped |-> 0]
    ELSE [book |-> book, skipped |-> 1]
\* the body of the inner for loop for one open order: the snapshot it leaves
\* and whether the order was skipped (unknown ticker, or `continue`)
FilterOrder(book, order) ==
    IF order.ticker \in DOMAIN book
    THEN IF order.side = "BID"
         THEN IF ~SDContains(book[order.ticker].bids, order.price)
              THEN [book |-> book, skipped |-> 1]
              ELSE [book |-> [book EXCEPT ![order.ticker].bids =
                                Decrement(@, order.price, order.volume, TRUE)],
                    skipped |-> 0]
         ELSE IF ~SDContains(book[order.ticker].asks, order.price)
              THEN [book |-> book, skipped |-> 1]
              ELSE [book |-> [book EXCEPT ![order.ticker].asks =
                                Decrement(@, order.price, order.volume, FALSE)],
                    skipped |-> 0]
    ELSE [book |-> book, skipped |-> 1]

RECURSIVE FilterLoop(_, _, _)
FilterLoop(book, os, i) ==
    IF i > Len(os) THEN [book |-> book, skipped |-> 0]
    ELSE LET r == FilterOrder(book, os[i])
             rest == FilterLoop(r.book, os, i + 1)
         IN  [book |-> rest.book, skipped |-> r.skipped + rest.skipped]

\* history: the volume of the last entry of the batch naming key, else prev
KeyOf(update) == <<update["ticker"], Upper(update["side"]), Float(update["price"])>>
RECURSIVE LastNaming(_, _, _, _)
LastNaming(updates, i, key, prev) ==
    IF i = 0 THEN prev
    ELSE IF KeyOf(updates[i]) = key THEN Float(updates[i]["volume"])
    ELSE LastNaming(updates, i - 1, key, prev)

NotNamed == 0 - 1

\* the keys the wire updates can name
Keys == {KeyOf(u) : u \in {w \in WireUpdates : WellFormed(w) /\ Upper(w["side"]) \in Sides}}

\* the snapshot is the raw book's own dict (a plausible slip: line 43 without
\* the copy)
deepcopy_Reference(book) == [book |-> book, shared |-> TRUE]
\* copy.deepcopy(self._orderbook.orderbooks) (line 43): the snapshot, and
\* whether a write to it is a write to the raw book
deepcopy(book) == [book |-> book, shared |-> FALSE]

\* FilteredOrderBook.update_volumes(updates, orders = portfolio.orders): the raw
\* book is updated in place; when that raises, the snapshot is left as it is
\* (and still is the raw book itself before the first successful call);
\* otherwise it becomes a deep copy of the raw book with the open orders
\* subtracted.
FilteredUpdate(updates) ==
    /\ nBatches < MaxBatches
    /\ nBatches' = nBatches + 1
    /\ \E r \in {update_volumes(raw_orderbooks, updates)} :
          /\ lastResult' = IF r.err = NoneVal THEN "ok" ELSE r.err
          /\ IF r.err # NoneVal
             THEN /\ raw_orderbooks' = r.book
                  /\ orderbooks' = IF aliased THEN r.book ELSE orderbooks
                  /\ aliased' = aliased
                  /\ lastSkipped' = 0
                  /\ lastNamed' = lastNamed
                  /\ everFailed' = TRUE
             ELSE \E c \in {deepcopy(r.book)} :
                  \E f \in {FilterLoop(c.book, AllOrders(orders), 1)} :
                      /\ orderbooks' = f.book
                      /\ raw_orderbooks' = IF c.shared THEN f.book ELSE r.book
                      /\ aliased' = c.shared
                      /\ lastSkipped' = f.skipped
                      /\ lastNamed' = [k \in Keys |->
                                         LastNaming(updates, Len(updates), k, lastNamed[k])]
                      /\ everFailed' = everFailed
    /\ plain' = update_volumes(plain, updates).book
    /\ fresh' = TRUE
    /\ UNCHANGED <<orders, window, now, sent, dropped, issued>>

\* an order-book message carrying any batch of wire updates
OnOrderbookMessage ==
    /\ \E updates \in Batches : FilteredUpdate(updates)
    /\ UNCHANGED <<wsVars, clientVars>>

\* an order-book message carrying one update of a level that open orders rest
\* at, or one entry without its volume
LevelUpdates ==
    { <<Upd("A", "10", "bid", "0")>>, <<Upd("A", "10", "bid", "3")>>,
      <<Upd("A", "10", "bid", "5")>>, <<Upd("A", "12", "ASK", "5")>>,
      <<[ticker |-> "A", price |-> "10", side |-> "bid"]>> }
OnLevelMessage ==
    /\ \E updates \in LevelUpdates : FilteredUpdate(updates)
    /\ UNCHANGED <<wsVars, clientVars>>

\* the snapshot is a live view: the raw book minus the open orders of the
\* moment (a plausible slip)
SnapshotLive(snapshot, raw, os) == FilterLoop(raw, AllOrders(os), 1).book
\* the filtered snapshot after the open orders have become os: the portfolio
\* holds no reference to the book, and the book reads the orders only inside
\* update_volumes (lines 44-66), so the snapshot is the one it was
SnapshotAfterOrders(snapshot, raw, os) == snapshot

\* UserPortfolio.add_order, called for the unfilled remainder of a limit order
AddOrder ==
    /\ OrderCount(orders) < MaxOrders
    /\ \E o \in OrderInputs :
          orders' = add_order(orders, Order(o[1], o[2], o[3], o[4], OrderCount(orders) + 1))
    /\ orderbooks' = SnapshotAfterOrders(orderbooks, raw_orderbooks, orders')
    /\ fresh' = FALSE
    /\ UNCHANGED <<raw_orderbooks, aliased, lastResult, lastSkipped,
                   nBatches, lastNamed, everFailed, plain, window, now, sent, dropped,
                   issued>>
    /\ UNCHANGED <<wsVars, clientVars>>

\* UserPortfolio.clear_orders, called after a confirmed remove_all
ClearOrders ==
    /\ orders' = clear_orders(orders)
    /\ orderbooks' = SnapshotAfterOrders(orderbooks, raw_orderbooks, orders')
    /\ fresh' = FALSE
    /\ UNCHANGED <<raw_orderbooks, aliased, lastResult, lastSkipped,
                   nBatches, lastNamed, everFailed, plain, window, now, sent, dropped,
                   issued>>
    /\ UNCHANGED <<wsVars, clientVars>>

----------------------------------------------------------------------------
(* Specifications of the order book *)

RateInit ==
    /\ window = <<>>
    /\ now = 0
    /\ sent = <<>>
    /\ dropped = 0
    /\ issued = <<>>

Callers == 1..MaxSubscribes

\* a _subscribe_ws task that has not been created
NoTask ==
    [pc |-> "none", sock |-> "none", frames |-> <<>>, cancel |-> FALSE,
     exit |-> "none", slept |-> FALSE, streak |-> <<>>, inbox |-> <<>>]
\* pc: where the task is suspended; sock: the socket of its `async with`;
\* frames: the frames sent on the open socket; cancel: cancel() was called;
\* exit, slept: how the task left its last socket and whether sleep(5) has
\* returned since; streak: the outcomes of the frames handled on the socket;
\* inbox: the frames the socket has received and recv() has not yet returned

\* WebSocketClient.__init__: _subscribed and _ws are None, _task is not assigned
WsInit ==
    /\ subscribed = 0
    /\ events = {}
    /\ task = 0
    /\ ws = 0
    /\ callers = [i \in Callers |-> [pc |-> "idle", ev |-> 0, joined |-> FALSE]]
    /\ tasks = [i \in Callers |-> NoTask]
    /\ unsub = [pc |-> "idle", awaiting |-> 0, result |-> "none", raced |-> FALSE]
    /\ unsubDone = FALSE
    /\ faults = 0
    /\ nMsgs = 0
    /\ signalled = {}

\* a call that writes the portfolio: the method, its arguments, the exception
\* it raised, its number among such calls; local: an optimistic change
\* (add_position, add_order) has been made since the last push that was
\* applied; overwrote: the call is a push applied over such a change
Op(op, arg, err, n, local, overwrote) ==
    [op |-> op, arg |-> arg, err |-> err, n |-> n, local |-> local,
     overwrote |-> overwrote]
NoOp == Op("none", <<>>, NoneVal, 0, FALSE, FALSE)

\* UserPortfolio.__init__
PortfolioInit ==
    /\ balance = 0
    /\ pnl = 0
    /\ positions = EmptyDict
    /\ lastOp = NoOp

\* the two strategy callbacks
Callbacks == {"on_orderbook_update", "on_portfolio_update"}

\* WebSocketClient.__init__: _strategy is None; no callback has been called
StrategyInit ==
    /\ strategy = FALSE
    /\ created = [c \in Callbacks |-> 0]
    /\ ran = [c \in Callbacks |-> 0]

\* no strategy registered, no command task created
ClientInit == PortfolioInit /\ StrategyInit /\ cmds = <<>>

\* TradingClient._user_buildup: FilteredOrderBook(raw snapshot), UserPortfolio()
BookInit(snapshots) ==
    /\ \E snap \in snapshots :
          /\ raw_orderbooks = OrderBookInit(snap)
          /\ orderbooks = OrderBookInit(snap)
          /\ plain = OrderBookInit(snap)
    /\ aliased = TRUE
    /\ orders = EmptyDict
    /\ lastResult = "none"
    /\ lastSkipped = 0
    /\ fresh = TRUE
    /\ nBatches = 0
    /\ lastNamed = [k \in Keys |-> NotNamed]
    /\ everFailed = FALSE

\* the raw book under arbitrary batches, no open orders
Init == BookInit(Snapshots) /\ RateInit /\ WsInit /\ ClientInit
Next == OnOrderbookMessage
Spec == Init /\ [][Next]_vars

\* the filtered snapshot under level updates and changing open orders
PositiveSnapshots ==
    {s \in Snapshots :
        \A t \in DOMAIN s : \A k \in DOMAIN s[t] : \A i \in 1..Len(s[t][k]) :
            Float(s[t][k][i][2]) > 0}
InitFiltered == BookInit(PositiveSnapshots) /\ RateInit /\ WsInit /\ ClientInit
NextFiltered == OnLevelMessage \/ AddOrder \/ ClearOrders
SpecFiltered == InitFiltered /\ [][NextFiltered]_vars

----------------------------------------------------------------------------
(* Vocabulary of the properties: a book read as a set of levels *)

AllKeys == Tickers \X Sides \X Prices
Views == {raw_orderbooks, orderbooks}

SideOf(book, t, s) == IF s = "BID" THEN book[t].bids ELSE book[t].asks
LevelsOf(sd) == {sd[i] : i \in 1..Len(sd)}
HasLevel(book, k) ==
    /\ k[1] \in DOMAIN book
    /\ \E l \in LevelsOf(SideOf(book, k[1], k[2])) : l[1] = k[3]
VolumeAt(book, k) ==
    LET l == CHOOSE x \in LevelsOf(SideOf(book, k[1], k[2])) : x[1] = k[3] IN l[2]
AllLevels(book) ==
    UNION {LevelsOf(book[t].bids) \cup LevelsOf(book[t].asks) : t \in DOMAIN book}

RECURSIVE OwnVolumeFrom(_, _, _)
OwnVolumeFrom(os, i, k) ==
    IF i > Len(os) THEN 0
    ELSE (IF <<os[i].ticker, os[i].side, os[i].price>> = k THEN os[i].volume ELSE 0)
            + OwnVolumeFrom(os, i + 1, k)
\* the volume of the open orders resting at key k
OwnVolume(k) == OwnVolumeFrom(AllOrders(orders), 1, k)

----------------------------------------------------------------------------
(* Properties of the order book *)

\* C1: as long as every batch has been applied successfully, the stored volume
\* at a key some update has named is the volume of the last update naming it,
\* and the level is absent when that volume was 0.
C1_LastUpdateWins ==
    ~everFailed =>
        \A k \in Keys :
            lastNamed[k] # NotNamed =>
                IF lastNamed[k] = 0 THEN ~HasLevel(raw_orderbooks, k)
                ELSE HasLevel(raw_orderbooks, k) /\ VolumeAt(raw_orderbooks, k) = lastNamed[k]
C1_Witness ==
    /\ ~everFailed
    /\ nBatches = MaxBatches
    /\ \E k \in Keys : lastNamed[k] = 0
    /\ \E k \in Keys : lastNamed[k] = 3 /\ HasLevel(raw_orderbooks, k)

\* C2: an update_volumes call that raises for an entry with a missing field
\* leaves the raw book as it was before the call.
C2_BatchAtomic ==
    [][(nBatches' = nBatches + 1 /\ lastResult' = "ValueError_keys")
          => raw_orderbooks' = raw_orderbooks]_vars

\* C3: every level stored in the raw book has volume > 0.
C3_NoZeroLevel == \A l \in AllLevels(raw_orderbooks) : l[2] > 0

\* C4: on a non-empty side best_bid is a level of the side whose price is >=
\* every bid price, and best_ask one whose price is <= every ask price.
C4_BestIsExtreme ==
    \A book \in Views : \A t \in DOMAIN book :
        /\ book[t].bids # <<>> =>
              /\ best_bid(book, t) \in LevelsOf(book[t].bids)
              /\ \A l \in LevelsOf(book[t].bids) : l[1] <= best_bid(book, t)[1]
        /\ book[t].asks # <<>> =>
              /\ best_ask(book, t) \in LevelsOf(book[t].asks)
              /\ \A l \in LevelsOf(book[t].asks) : l[1] >= best_ask(book, t)[1]
C4_Witness ==
    /\ nBatches = MaxBatches
    /\ \E t \in DOMAIN raw_orderbooks :
          Len(raw_orderbooks[t].bids) >= 3 /\ Len(raw_orderbooks[t].asks) >= 2

\* C5: best_bid / best_ask are absent exactly when their side is empty; mid,
\* wmid and spread are absent exactly when a side is empty, and none raises.
C5_AbsentExactlyWhenEmpty ==
    \A book \in Views : \A t \in DOMAIN book :
        LET oneEmpty == book[t].bids = <<>> \/ book[t].asks = <<>>
        IN  /\ (best_bid(book, t) = NoLevel) <=> (book[t].bids = <<>>)
            /\ (best_ask(book, t) = NoLevel) <=> (book[t].asks = <<>>)
            /\ \A r \in {mid(book, t), wmid(book, t), spread(book, t)} :
                  /\ r.kind # "ZeroDivisionError"
                  /\ (r.kind = "None") <=> oneEmpty

\* C6: with (bp, bv) the highest bid and (ap, av) the lowest ask, mid is
\* (bp+ap)/2, spread is ap-bp (negative on a crossed book) and wmid is
\* (bp*av + ap*bv)/(bv+av); bid (10,5) and ask (12,3) give 11, 11.25 and 2.
C6_Statistics ==
    \A book \in Views : \A t \in DOMAIN book :
        (book[t].bids # <<>> /\ book[t].asks # <<>>) =>
            LET b == CHOOSE x \in LevelsOf(book[t].bids) :
                        \A l \in LevelsOf(book[t].bids) : l[1] <= x[1]
                a == CHOOSE x \in LevelsOf(book[t].asks) :
                        \A l \in LevelsOf(book[t].asks) : l[1] >= x[1]
            IN  /\ mid(book, t) = Value(b[1] + a[1], 2)
                /\ spread(book, t) = Value(a[1] - b[1], 1)
                /\ b[1] > a[1] => spread(book, t).num < 0
                /\ b[2] + a[2] # 0 =>
                      wmid(book, t) = Value(b[1] * a[2] + a[1] * b[2], b[2] + a[2])
                /\ (b = <<10, 5>> /\ a = <<12, 3>>) =>
                      /\ mid(book, t).num = 11 * mid(book, t).den
                      /\ 4 * wmid(book, t).num = 45 * wmid(book, t).den
                      /\ spread(book, t).num = 2 * spread(book, t).den
C6_Witness ==
    /\ nBatches > 0
    /\ "A" \in DOMAIN raw_orderbooks
    /\ best_bid(raw_orderbooks, "A") = <<10, 5>>
    /\ best_ask(raw_orderbooks, "A") = <<12, 3>>
    /\ wmid(raw_orderbooks, "A") = Value(90, 8)

----------------------------------------------------------------------------
(* Properties of the filtered snapshot *)

\* the filtered level at k is the raw level minus the open orders resting at k
FilteredIsRawMinusOwn(k) ==
    LET d == VolumeAt(raw_orderbooks, k) - OwnVolume(k)
    IN  d > 0 => HasLevel(orderbooks, k) /\ VolumeAt(orderbooks, k) = d

\* C7: right after a successful update_volumes(updates, open orders), at every
\* key the filtered volume is the raw volume minus the sum of the open orders
\* resting at that key, whenever that difference is positive.
C7_FilteredIsRawMinusOwn ==
    (lastResult = "ok" /\ fresh) =>
        \A k \in AllKeys : HasLevel(raw_orderbooks, k) => FilteredIsRawMinusOwn(k)
C7_Witness ==
    /\ lastResult = "ok" /\ fresh
    /\ Len(AllOrders(orders)) = 2
    /\ OwnVolume(<<"A", "BID", 10>>) = 4
    /\ HasLevel(orderbooks, <<"A", "BID", 10>>)
    /\ VolumeAt(orderbooks, <<"A", "BID", 10>>) = 1

\* C8: the filtered snapshot never holds a level with volume <= 0.
C8_NoNonPositiveLevel == \A l \in AllLevels(orderbooks) : l[2] > 0

\* C9: when the filtering pass skipped an open order (its ticker or its level
\* was absent from the snapshot at that moment), the update succeeded, no
\* level exists in the snapshot that the raw book lacks, and the other open
\* orders were still subtracted.
C9_SkippedOrderIsHarmless ==
    (fresh /\ lastSkipped > 0) =>
        /\ lastResult = "ok"
        /\ \A k \in AllKeys : HasLevel(orderbooks, k) => HasLevel(raw_orderbooks, k)
        /\ \A k \in AllKeys : HasLevel(raw_orderbooks, k) => FilteredIsRawMinusOwn(k)
C9_Witness ==
    /\ fresh /\ lastSkipped = 1
    /\ Len(AllOrders(orders)) = 2
    /\ \E k \in AllKeys :
          /\ HasLevel(raw_orderbooks, k)
          /\ HasLevel(orderbooks, k)
          /\ OwnVolume(k) > 0
          /\ VolumeAt(orderbooks, k) = VolumeAt(raw_orderbooks, k) - OwnVolume(k)

----------------------------------------------------------------------------
(* Prioritizer *)

\* the horizon is left out of the comparison (a plausible slip)
update_rate_limit_window_NoHorizon(w, current_time) ==
    SelectSeq(w, LAMBDA ts : ~(ts < current_time))
\* Prioritizer._update_rate_limit_window: popleft while the oldest timestamp
\* is more than one second older than current_time
RECURSIVE update_rate_limit_window(_, _)
update_rate_limit_window(w, current_time) ==
    IF w # <<>> /\ Head(w) < current_time - TicksPerSecond
    THEN update_rate_limit_window(Tail(w), current_time)
    ELSE w

\* the comparison admits one command too many (a plausible slip)
WindowFullOffByOne(w) == Len(w) > RateLimit
\* len(self._rate_limit_window) >= self._rate_limit
WindowFull(w) == Len(w) >= RateLimit

\* the timestamp is recorded before the limit is looked at (a plausible slip)
RejectedWindowStamped(w, t) == Append(w, t)
\* the window a rejected call leaves: print and return, nothing appended
RejectedWindow(w, t) == w

\* one entry of the call log: the kind of the call, the tick of its first
\* time.time() read, whether it was forwarded, and what the call came to
Call(kind, at, forwarded) ==
    [kind |-> kind, at |-> at, forwarded |-> forwarded,
     result |-> IF forwarded THEN "awaited" ELSE NoneVal]

\* the common body of place_limit, place_market and remove_all up to the await
\* of the trading client: prune, check, append, forward.  time.time() is read
\* twice, in the prune and in the append, and the clock may advance by d ticks
\* in between; the trading-client coroutine is entered in the same step, so a
\* command is forwarded at the tick of its timestamp.
Admit(kind) ==
    /\ Len(sent) + dropped < MaxCommands
    /\ LET w == update_rate_limit_window(window, now)
       IN  IF WindowFull(w)
           THEN /\ window' = RejectedWindow(w, now)
                /\ dropped' = dropped + 1
                /\ issued' = Append(issued, Call(kind, now, FALSE))
                /\ UNCHANGED <<now, sent>>
           ELSE \E d \in 0..1 :
                   /\ now + d <= MaxTime
                   /\ now' = now + d
                   /\ window' = Append(w, now + d)
                   /\ sent' = Append(sent, <<kind, now + d, Len(issued) + 1>>)
                   /\ issued' = Append(issued, Call(kind, now, TRUE))
                   /\ dropped' = dropped
    /\ UNCHANGED bookVars
    /\ UNCHANGED <<wsVars, clientVars>>

\* Prioritizer.place_limit
place_limit == Admit("limit_order")
\* Prioritizer.place_market
place_market == Admit("market_order")
\* Prioritizer.remove_all
remove_all == Admit("remove_all")

\* time passes between two commands
Tick ==
    /\ now < MaxTime
    /\ now' = now + 1
    /\ UNCHANGED <<window, sent, dropped, issued>>
    /\ UNCHANGED bookVars
    /\ UNCHANGED <<wsVars, clientVars>>

InitRate == BookInit({EmptyDict}) /\ RateInit /\ WsInit /\ ClientInit
NextRate == place_limit \/ place_market \/ remove_all \/ Tick
SpecRate == InitRate /\ [][NextRate]_vars

\* the commands forwarded in the closed one-second window starting at tick a
ForwardedIn(a) == {i \in 1..Len(sent) : a <= sent[i][2] /\ sent[i][2] <= a + TicksPerSecond}

\* C10: in every rolling one-second window at most RateLimit commands are
\* forwarded to the trading client, limit orders, market orders and
\* remove-alls counted together.
C10_AtMostNPerWindow ==
    \A a \in 0..MaxTime : Cardinality(ForwardedIn(a)) <= RateLimit
C10_Witness ==
    /\ dropped > 0
    /\ \E a \in 0..MaxTime :
          /\ Cardinality(ForwardedIn(a)) = RateLimit
          /\ \E i, j \in ForwardedIn(a) : sent[i][1] # sent[j][1]
    /\ Len(sent) > RateLimit

\* the forwarded commands before call i all carry a timestamp more than one
\* second older than the tick call i was issued at
IdleBefore(i) ==
    \A j \in 1..Len(sent) : sent[j][3] < i => sent[j][2] < issued[i].at - TicksPerSecond

\* C11: of RateLimit + 1 calls issued within less than one second, after a
\* silence of more than one second, the first RateLimit are forwarded and the
\* last one is dropped; and a call issued more than one second after every
\* earlier admission is forwarded.
C11_BurstThenRecovery ==
    /\ \A i \in 1..Len(issued) :
          (/\ i + RateLimit <= Len(issued)
           /\ issued[i + RateLimit].at - issued[i].at < TicksPerSecond
           /\ IdleBefore(i))
          => /\ \A m \in 0..(RateLimit - 1) : issued[i + m].forwarded
             /\ ~issued[i + RateLimit].forwarded
    /\ \A k \in 1..Len(issued) : IdleBefore(k) => issued[k].forwarded
C11_Witness ==
    /\ Len(issued) >= RateLimit + 2
    /\ issued[RateLimit + 1].at - issued[1].at < TicksPerSecond
    /\ \A m \in 1..RateLimit : issued[m].forwarded
    /\ ~issued[RateLimit + 1].forwarded
    /\ IdleBefore(RateLimit + 2)
    /\ issued[RateLimit + 2].forwarded

IsSuffix(a, b) == \E k \in 0..Len(b) : a = SubSeq(b, k + 1, Len(b))

\* C12: a rejected call forwards nothing and records no timestamp (the window
\* it leaves is the old one, pruned), it returns None, and its command is
\* never among the forwarded ones afterwards.
C12_RejectedIsDropped ==
    /\ [](\A i \in 1..Len(issued) :
            ~issued[i].forwarded =>
                /\ issued[i].result = NoneVal
                /\ \A j \in 1..Len(sent) : sent[j][3] # i)
    /\ [][(Len(issued') = Len(issued) + 1 /\ ~issued'[Len(issued')].forwarded)
             => (sent' = sent /\ IsSuffix(window', window))]_vars
C12_Witness ==
    \E i, k \in 1..Len(issued) :
        /\ i < k
        /\ ~issued[i].forwarded
        /\ issued[k].forwarded
        /\ \E j \in 1..Len(sent) : sent[j][3] = k

----------------------------------------------------------------------------
(* Prioritizer commands run as detached tasks                              *)
(*                                                                         *)
(* asyncio.create_task(self._quoter.place_limit(...)) makes a task; the    *)
(* event loop runs one task at a time, from the await it was suspended at  *)
(* to the next await that suspends.                                        *)

\* the statements of Prioritizer.place_limit, lines 56, 57, 62 and 63
CommandCode == <<"prune", "check", "append", "forward">>
\* the place of a statement in CommandCode
At(stmt) == CHOOSE i \in 1..Len(CommandCode) : CommandCode[i] = stmt
\* the task is suspended in the call it forwarded
Forwarded == Len(CommandCode) + 1
\* the task has returned
Returned == 0
\* no timestamp recorded for the task
NoStamp == 0 - 1

\* the task also suspends between its check and its append (a plausible
\* slip: an await on the way to line 62)
SuspendsAfterCheck(stmt) == stmt \in {"check", "forward"}
\* the statements at which the coroutine is suspended: the await of line 63
\* is the only await of place_limit
Suspends(stmt) == stmt = "forward"

\* a task made by create_task: the statement it runs next, its timestamp
NewCommand == [pc |-> 1, at |-> NoStamp, result |-> "pending"]

\* task c runs from statement st.cmd.pc to its next suspension or its return;
\* st holds the window, the forwarded commands, the rejections and the task
RECURSIVE RunCommand(_, _)
RunCommand(st, c) ==
    LET stmt == CommandCode[st.cmd.pc]
        next ==
            CASE stmt = "prune" ->
                    [st EXCEPT !.window = update_rate_limit_window(@, now),
                               !.cmd.pc = @ + 1]
              [] stmt = "check" ->
                    IF WindowFull(st.window)
                    THEN [st EXCEPT !.window = RejectedWindow(@, now),
                                    !.dropped = @ + 1,
                                    !.cmd.pc = Returned, !.cmd.result = NoneVal]
                    ELSE [st EXCEPT !.cmd.pc = @ + 1]
              [] stmt = "append" ->
                    [st EXCEPT !.window = Append(@, now), !.cmd.at = now,
                               !.cmd.pc = @ + 1]
              [] stmt = "forward" ->
                    [st EXCEPT !.sent = Append(@, <<"limit_order", now, c>>),
                               !.cmd.pc = @ + 1]
    IN  IF next.cmd.pc = Returned \/ Suspends(stmt) THEN next
        ELSE RunCommand(next, c)

\* a strategy callback detaches a command: asyncio.create_task(place_limit(...))
CreateCommand ==
    /\ Len(cmds) < MaxCommands
    /\ cmds' = Append(cmds, NewCommand)
    /\ UNCHANGED <<bookVars, rateVars, wsVars, portfolioVars, strategyVars>>

\* the event loop runs task c up to its next suspension or its return
CommandRun(c) ==
    /\ cmds[c].pc \in 1..Len(CommandCode)
    /\ \E st \in {RunCommand([window |-> window, sent |-> sent, dropped |-> dropped,
                              cmd |-> cmds[c]], c)} :
          /\ window' = st.window
          /\ sent' = st.sent
          /\ dropped' = st.dropped
          /\ cmds' = [cmds EXCEPT ![c] = st.cmd]
    /\ UNCHANGED <<now, issued>>
    /\ UNCHANGED <<bookVars, wsVars, portfolioVars, strategyVars>>

\* what the awaited TradingClient.place_limit comes to: it returns None
\* ("awaited": the response was applied, or it had an errorCode and the
\* trading client returned at line 171), or it raises ("raised": the post
\* failed, the response has no message)
TransportOutcomes == {"awaited", "raised"}

\* w without its last timestamp equal to at
RECURSIVE WithoutStamp(_, _)
WithoutStamp(w, at) ==
    IF w = <<>> THEN w
    ELSE IF w[Len(w)] = at THEN SubSeq(w, 1, Len(w) - 1)
    ELSE Append(WithoutStamp(SubSeq(w, 1, Len(w) - 1), at), w[Len(w)])

\* the slot of a command that failed is given back (a plausible slip: a
\* try/except around line 63)
AfterTransportRefund(w, at, outcome) ==
    IF outcome = "awaited" THEN w ELSE WithoutStamp(w, at)
\* the window after the awaited call of line 63: nothing follows the await
\* and nothing encloses it, so the window is the one line 62 left
AfterTransport(w, at, outcome) == w

\* the forwarded call of task c returns or raises, and the task with it: its
\* await is over either way; a call that raises is counted as a fault of the
\* venue or the network
CommandReturn(c) ==
    /\ cmds[c].pc = Forwarded
    /\ \E outcome \in TransportOutcomes :
          /\ faults' = IF outcome = "raised" THEN faults + 1 ELSE faults
          /\ faults' <= MaxFaults
          /\ cmds' = [cmds EXCEPT ![c].pc = Returned, ![c].result = "awaited"]
          /\ window' = AfterTransport(window, cmds[c].at, outcome)
    /\ UNCHANGED <<now, sent, dropped, issued>>
    /\ UNCHANGED <<subscribed, events, task, ws, callers, tasks, unsub, unsubDone,
                   nMsgs, signalled>>
    /\ UNCHANGED <<bookVars, portfolioVars, strategyVars>>

\* detached commands under every interleaving of the tasks and the clock
CommandTasks == 1..MaxCommands
NextTasks ==
    \/ CreateCommand
    \/ \E c \in CommandTasks : c <= Len(cmds) /\ CommandRun(c)
    \/ \E c \in CommandTasks : c <= Len(cmds) /\ CommandReturn(c)
    \/ Tick
SpecTasks == InitRate /\ [][NextTasks]_vars

\* the tasks whose timestamp lies in the closed one-second window from tick a
StampedIn(a) ==
    {c \in 1..Len(cmds) :
        cmds[c].at # NoStamp /\ a <= cmds[c].at /\ cmds[c].at <= a + TicksPerSecond}

\* C30: under every interleaving of detached command tasks the window holds
\* at most RateLimit timestamps, a task is suspended only before its prune or
\* in the call it forwarded (never between prune, check and append), and at
\* most RateLimit tasks have passed the check within any one second (no two
\* of them took the last free slot).
C30_AtomicAdmission ==
    /\ Len(window) <= RateLimit
    /\ \A c \in 1..Len(cmds) : cmds[c].pc \in {At("prune"), Forwarded, Returned}
    /\ \A a \in 0..MaxTime : Cardinality(StampedIn(a)) <= RateLimit
\* RateLimit tasks are suspended in their forwarded calls at once, with the
\* same timestamp, and a task started after them has been turned away
C30_Witness ==
    /\ Cardinality({c \in 1..Len(cmds) : cmds[c].pc = Forwarded /\ cmds[c].at = now})
          = RateLimit
    /\ \E c \in 1..Len(cmds) : cmds[c].pc = Returned /\ cmds[c].result = NoneVal
    /\ Len(window) = RateLimit

----------------------------------------------------------------------------
(* TradingClient.place_limit, place_market and the portfolio pushes *)

\* the record of a push: applied when the message is a dict and nothing raised
PushOp(message, err) ==
    Op("update_portfolio", message, err, lastOp.n + 1,
       IF message.type = "dict" /\ err = NoneVal THEN FALSE ELSE lastOp.local,
       message.type = "dict" /\ err = NoneVal /\ lastOp.local)

\* the pushes of the private queue: a full one, one with a balance only, one
\* with a flat position that still carries an average, one whose second
\* order entry lacks its orderId, one with Orders only, and one that is a
\* list
Pushes ==
    { [type |-> "dict",
       value |-> [balance |-> 100, pnl |-> 5,
                  positions |-> [t \in {"A"} |-> Position(2, Rat(10, 1))],
                  Orders |-> [t \in {"A"} |->
                                << [volume |-> 2, price |-> 10, side |-> "BID",
                                    orderId |-> 1] >>]]],
      [type |-> "dict", value |-> [balance |-> 50]],
      [type |-> "dict",
       value |-> [balance |-> 100,
                  positions |-> [t \in {"A"} |-> Position(0, Rat(10, 1))]]],
      [type |-> "dict",
       value |-> [balance |-> 70,
                  Orders |-> [t \in {"A"} |->
                                << [volume |-> 2, price |-> 10, side |-> "BID",
                                    orderId |-> 1],
                                   [volume |-> 3, price |-> 12, side |-> "ASK"] >>]]],
      [type |-> "dict",
       value |-> [Orders |-> [t \in {"A"} |->
                                << [volume |-> 3, price |-> 12, side |-> "ASK",
                                    orderId |-> 2] >>]]],
      [type |-> "list", value |-> <<>>] }

\* a portfolio push, one of messages, reaches update_portfolio
PushFrom(messages) ==
    /\ lastOp.n < MaxPortfolioOps
    /\ \E message \in messages :
       \E u \in {update_portfolio(PortfolioOf(balance, pnl, positions, orders), message)} :
          /\ balance' = u.portfolio.balance
          /\ pnl' = u.portfolio.pnl
          /\ positions' = u.portfolio.positions
          /\ orders' = u.portfolio.orders
          /\ lastOp' = PushOp(message, u.err)
          /\ orderbooks' = SnapshotAfterOrders(orderbooks, raw_orderbooks,
                                               u.portfolio.orders)
    /\ fresh' = FALSE
    /\ UNCHANGED <<raw_orderbooks, aliased, lastResult, lastSkipped,
                   nBatches, lastNamed, everFailed, plain>>
    /\ UNCHANGED <<rateVars, wsVars, strategyVars, cmds>>

\* a portfolio push of the private queue
PortfolioPush == PushFrom(Pushes)

\* the whole requested volume is left resting (a plausible slip)
VolumeRemainingWhole(volume, volume_filled) == volume
\* volume_remaining = volume - volume_filled (line 173)
VolumeRemaining(volume, volume_filled) == volume - volume_filled

\* position_delta=volume_filled if is_bid else -volume_filled
PositionDelta(volume_filled, is_bid) ==
    IF is_bid THEN volume_filled ELSE 0 - volume_filled

\* TradingClient.place_limit from the response on (lines 169-190)
limit_response(p, req, message) ==
    IF message.errorCode # 0 THEN p
    ELSE LET volume_filled == message.volumeFilled
             volume_remaining == VolumeRemaining(req.volume, volume_filled)
             filled == IF volume_filled > 0
                       THEN [p EXCEPT !.positions =
                                add_position(@, req.ticker,
                                             PositionDelta(volume_filled, req.is_bid),
                                             req.price)]
                       ELSE p
         IN  IF volume_remaining > 0
             THEN [filled EXCEPT !.orders =
                      add_order(@, Order(req.ticker, req.price, volume_remaining,
                                         IF req.is_bid THEN "BID" ELSE "ASK",
                                         message.orderId))]
             ELSE filled

\* TradingClient.place_market from the response on (lines 235-247)
market_response(p, req, message) ==
    IF message.errorCode # 0 THEN p
    ELSE IF message.volumeFilled > 0
    THEN [p EXCEPT !.positions =
             add_position(@, req.ticker,
                          PositionDelta(message.volumeFilled, req.is_bid),
                          message.price)]
    ELSE p

\* the limit orders a strategy places and the responses of the venue
LimitRequests ==
    [ticker : {"A"}, volume : {2}, price : {10, 12}, is_bid : BOOLEAN]
LimitResponses(req) ==
    {[errorCode |-> 1]} \cup
    {[errorCode |-> 0, volumeFilled |-> f, orderId |-> lastOp.n + 1] :
        f \in 0..req.volume}

\* the market orders a strategy places and the responses of the venue
MarketRequests == [ticker : {"A"}, volume : {1}, is_bid : BOOLEAN]
MarketResponses(req) ==
    {[errorCode |-> 1]} \cup
    {[errorCode |-> 0, volumeFilled |-> f, price |-> pr] :
        f \in 0..req.volume, pr \in {10, 12}}

\* the record of a place_limit or place_market call
PlaceOp(op, req, message, changed) ==
    Op(op, [req |-> req, message |-> message], NoneVal, lastOp.n + 1,
       lastOp.local \/ changed, FALSE)

\* the portfolio p is written
WritePortfolio(p) ==
    /\ balance' = p.balance
    /\ pnl' = p.pnl
    /\ positions' = p.positions
    /\ orders' = p.orders

\* TradingClient.place_limit: the request is posted and the response applied
TradingClient_place_limit ==
    /\ lastOp.n < MaxPortfolioOps
    /\ \E req \in LimitRequests : \E message \in LimitResponses(req) :
       \E p \in {limit_response(PortfolioOf(balance, pnl, positions, orders),
                                req, message)} :
          /\ WritePortfolio(p)
          /\ lastOp' = PlaceOp("place_limit", req, message,
                               p # PortfolioOf(balance, pnl, positions, orders))
    /\ fresh' = FALSE
    /\ UNCHANGED <<raw_orderbooks, orderbooks, aliased, lastResult, lastSkipped,
                   nBatches, lastNamed, everFailed, plain>>
    /\ UNCHANGED <<rateVars, wsVars, strategyVars, cmds>>

\* TradingClient.place_market: the request is posted and the response applied
TradingClient_place_market ==
    /\ lastOp.n < MaxPortfolioOps
    /\ \E req \in MarketRequests : \E message \in MarketResponses(req) :
       \E p \in {market_response(PortfolioOf(balance, pnl, positions, orders),
                                 req, message)} :
          /\ WritePortfolio(p)
          /\ lastOp' = PlaceOp("place_market", req, message,
                               p # PortfolioOf(balance, pnl, positions, orders))
    /\ fresh' = FALSE
    /\ UNCHANGED <<raw_orderbooks, orderbooks, aliased, lastResult, lastSkipped,
                   nBatches, lastNamed, everFailed, plain>>
    /\ UNCHANGED <<rateVars, wsVars, strategyVars, cmds>>

\* every response passes the check (a plausible slip)
error_check_Always(message) == TRUE
\* TradingClient._error_check (lines 107-118)
error_check(message) == message.errorCode = 0

\* TradingClient.remove_all from the response on (lines 278-283): an empty
\* message and an error response return before clear_orders
remove_all_response(p, message) ==
    IF DOMAIN message = {} \/ ~error_check(message) THEN p
    ELSE [p EXCEPT !.orders = clear_orders(@)]

\* the responses of the venue to remove_all
RemoveAllResponses == {[errorCode |-> 0], [errorCode |-> 1], EmptyDict}

\* TradingClient.remove_all: the request is posted and the response applied;
\* the record of the call keeps the number of orders tracked when it was made
TradingClient_remove_all ==
    /\ lastOp.n < MaxPortfolioOps
    /\ \E message \in RemoveAllResponses :
       \E p \in {remove_all_response(PortfolioOf(balance, pnl, positions, orders),
                                     message)} :
          /\ WritePortfolio(p)
          /\ lastOp' = PlaceOp("remove_all", [open |-> OrderCount(orders)], message,
                               p # PortfolioOf(balance, pnl, positions, orders))
    /\ fresh' = FALSE
    /\ UNCHANGED <<raw_orderbooks, orderbooks, aliased, lastResult, lastSkipped,
                   nBatches, lastNamed, everFailed, plain>>
    /\ UNCHANGED <<rateVars, wsVars, strategyVars, cmds>>

\* the portfolio under optimistic changes and pushes
InitPortfolio == BookInit({EmptyDict}) /\ RateInit /\ WsInit /\ ClientInit
NextPortfolio ==
    \/ TradingClient_place_limit
    \/ TradingClient_place_market
    \/ TradingClient_remove_all
    \/ PortfolioPush
SpecPortfolio == InitPortfolio /\ [][NextPortfolio]_vars

----------------------------------------------------------------------------
(* WebSocketClient: subscribe(), unsubscribe() and the _subscribe_ws task  *)
(*                                                                         *)
(* The coroutines run on one event loop: a step runs a coroutine from the  *)
(* await it was suspended at to the next await that suspends.  Call i of   *)
(* subscribe() creates Event i and task i.                                 *)

\* _ws names a socket its task has since replaced by a new one
Stale == 0 - 1

Running(t) == tasks[t].pc \notin {"none", "done"}

\* the frames _on_open sends, in the order of its three ws.send calls
OnOpenFrames == <<"CONNECT", "SUBSCRIBE /topic/orderbook", "SUBSCRIBE /user/queue/private">>
\* the frame _on_open sends after `frames`
NextFrame(frames) == OnOpenFrames[Len(frames) + 1]
\* set() is reached one send early (a plausible slip)
HandshakeDoneEarly(frames) == Len(frames) >= Len(OnOpenFrames) - 1
\* _on_open has sent all its frames and goes on to self._subscribed.set()
HandshakeDone(frames) == Len(frames) = Len(OnOpenFrames)

\* the exception leaves the task (a plausible slip: no outer except)
AfterExceptionEscapes == "done"
\* where `except Exception` of _subscribe_ws leaves the task: _on_error, then
\* asyncio.sleep(5)
AfterException == "backoff"
\* where `except ConnectionClosed` of the read loop leaves the task: _on_close,
\* break, out of the `async with`, and on to the next turn of `while True`
AfterConnectionClosed == "connect"

\* ws.close(): the socket is closed once; closing a closed socket does nothing.
\* frames and streak describe the open socket and are emptied with it.
CloseSocket(rec) ==
    IF rec.sock = "open"
    THEN [rec EXCEPT !.sock = "closed", !.frames = <<>>, !.streak = <<>>,
                     !.inbox = <<>>]
    ELSE rec

\* the task leaves its `async with` block: __aexit__ closes the socket
LeaveSocket(rec) == CloseSocket(rec)

\* an exception caught by `except Exception` (line 123)
Failed(rec) ==
    [LeaveSocket(rec) EXCEPT !.pc = AfterException, !.exit = "error", !.slept = FALSE]

\* history: subscribe() ran while unsubscribe() was awaiting its task
NoteSubscribe ==
    /\ unsub' = IF unsub.pc = "await_task" THEN [unsub EXCEPT !.raced = TRUE] ELSE unsub
    /\ unsubDone' = FALSE

\* subscribe() from `self._subscribed = asyncio.Event()` to its last await
CreateSubscription(i) ==
    /\ subscribed' = i
    /\ task' = i
    /\ tasks' = [tasks EXCEPT ![i] = [NoTask EXCEPT !.pc = "connect"]]
    /\ NoteSubscribe

\* a call of subscribe(): with _subscribed None, or with its Event already
\* set, the call runs on to create its own Event and task; otherwise it waits
\* on the Event it found.  The calls are numbered in the order they are made.
SubscribeCall(i) ==
    /\ callers[i].pc = "idle"
    /\ \A j \in Callers : j < i => callers[j].pc # "idle"
    /\ IF subscribed # 0 /\ subscribed \notin events
       THEN /\ callers' = [callers EXCEPT ![i] =
                              [pc |-> "wait_existing", ev |-> subscribed, joined |-> TRUE]]
            /\ NoteSubscribe
            /\ UNCHANGED <<subscribed, task, tasks>>
       ELSE /\ callers' = [callers EXCEPT ![i] =
                              [pc |-> "wait_own", ev |-> i, joined |-> subscribed # 0]]
            /\ CreateSubscription(i)
    /\ UNCHANGED <<events, ws, faults, nMsgs, signalled>>
    /\ UNCHANGED <<bookVars, rateVars, clientVars>>

\* the Event a subscribe() waits on has been set: the first wait goes on to
\* create the call's own Event and task, the last wait returns
SubscribeWake(i) ==
    /\ callers[i].pc \in {"wait_existing", "wait_own"}
    /\ callers[i].ev \in events
    /\ IF callers[i].pc = "wait_existing"
       THEN /\ callers' = [callers EXCEPT ![i].pc = "wait_own", ![i].ev = i]
            /\ CreateSubscription(i)
       ELSE /\ callers' = [callers EXCEPT ![i].pc = "returned"]
            /\ UNCHANGED <<subscribed, task, tasks, unsub, unsubDone>>
    /\ UNCHANGED <<events, ws, faults, nMsgs, signalled>>
    /\ UNCHANGED <<bookVars, rateVars, clientVars>>

\* websockets.connect succeeds: a new socket
TaskConnectOk(t) ==
    /\ tasks[t].pc = "connect" /\ ~tasks[t].cancel
    /\ tasks' = [tasks EXCEPT ![t].pc = "handshake", ![t].sock = "open",
                              ![t].frames = <<>>, ![t].streak = <<>>,
                              ![t].inbox = <<>>,
                              ![t].exit = "none", ![t].slept = FALSE]
    /\ ws' = IF ws = t THEN Stale ELSE ws
    /\ UNCHANGED <<subscribed, events, task, callers, unsub, unsubDone, faults,
                   nMsgs, signalled>>
    /\ UNCHANGED <<bookVars, rateVars, clientVars>>

\* websockets.connect raises
TaskConnectFail(t) ==
    /\ tasks[t].pc = "connect" /\ ~tasks[t].cancel
    /\ faults < MaxFaults
    /\ faults' = faults + 1
    /\ tasks' = [tasks EXCEPT ![t] = Failed(@)]
    /\ UNCHANGED <<subscribed, events, task, ws, callers, unsub, unsubDone,
                   nMsgs, signalled>>
    /\ UNCHANGED <<bookVars, rateVars, clientVars>>

\* a completed handshake starts from an empty book (a plausible slip: the
\* client state rebuilt on every connection)
HeldBookReset(book) == EmptyDict
\* the book after a completed handshake: _on_open (lines 38-59) sends frames
\* and sets the Event, and the book is built once, in _user_buildup, so it is
\* the book held when the previous connection ended
HeldBook(book) == book

\* one ws.send of _on_open completes; after the last one the assert, set(),
\* the return to _subscribe_ws and `self._ws = ws` run without suspending
TaskSend(t) ==
    /\ tasks[t].pc = "handshake" /\ ~tasks[t].cancel
    /\ LET fr == Append(tasks[t].frames, NextFrame(tasks[t].frames))
       IN  IF ~HandshakeDone(fr)
           THEN /\ tasks' = [tasks EXCEPT ![t].frames = fr]
                /\ UNCHANGED <<events, ws, signalled>>
           ELSE IF subscribed = 0
           THEN /\ tasks' = [tasks EXCEPT ![t] = Failed([@ EXCEPT !.frames = fr])]
                /\ UNCHANGED <<events, ws, signalled>>
           ELSE /\ tasks' = [tasks EXCEPT ![t].frames = fr, ![t].pc = "recv"]
                /\ events' = events \cup {subscribed}
                /\ ws' = t
                /\ signalled' = signalled \cup {fr}
    /\ raw_orderbooks' = IF HandshakeDone(Append(tasks[t].frames,
                                                 NextFrame(tasks[t].frames)))
                         THEN HeldBook(raw_orderbooks) ELSE raw_orderbooks
    /\ UNCHANGED <<subscribed, task, callers, unsub, unsubDone, faults, nMsgs>>
    /\ UNCHANGED <<orderbooks, aliased, orders, lastResult, lastSkipped, fresh,
                   nBatches, lastNamed, everFailed, plain>>
    /\ UNCHANGED <<rateVars, clientVars>>

\* a ws.send of _on_open raises
TaskSendFail(t) ==
    /\ tasks[t].pc = "handshake" /\ ~tasks[t].cancel
    /\ faults < MaxFaults
    /\ faults' = faults + 1
    /\ tasks' = [tasks EXCEPT ![t] = Failed(@)]
    /\ UNCHANGED <<subscribed, events, task, ws, callers, unsub, unsubDone,
                   nMsgs, signalled>>
    /\ UNCHANGED <<bookVars, rateVars, clientVars>>

\* ws.recv raises ConnectionClosed: the peer or the network closed the socket,
\* or unsubscribe() closed it through _ws
TaskConnectionClosed(t) ==
    /\ tasks[t].pc = "recv" /\ ~tasks[t].cancel
    /\ \/ tasks[t].sock = "closed" /\ faults' = faults
       \/ tasks[t].sock = "open" /\ faults < MaxFaults /\ faults' = faults + 1
    /\ tasks' = [tasks EXCEPT ![t] =
                    [LeaveSocket(@) EXCEPT !.pc = AfterConnectionClosed,
                                           !.exit = "closed", !.slept = FALSE]]
    /\ UNCHANGED <<subscribed, events, task, ws, callers, unsub, unsubDone,
                   nMsgs, signalled>>
    /\ UNCHANGED <<bookVars, rateVars, clientVars>>

\* ws.recv raises an exception other than ConnectionClosed
TaskRecvError(t) ==
    /\ tasks[t].pc = "recv" /\ ~tasks[t].cancel
    /\ tasks[t].sock = "open"
    /\ faults < MaxFaults
    /\ faults' = faults + 1
    /\ tasks' = [tasks EXCEPT ![t] = Failed(@)]
    /\ UNCHANGED <<subscribed, events, task, ws, callers, unsub, unsubDone,
                   nMsgs, signalled>>
    /\ UNCHANGED <<bookVars, rateVars, clientVars>>

\* asyncio.sleep(5) returns
TaskBackoffElapsed(t) ==
    /\ tasks[t].pc = "backoff" /\ ~tasks[t].cancel
    /\ tasks' = [tasks EXCEPT ![t].pc = "connect", ![t].slept = TRUE]
    /\ UNCHANGED <<subscribed, events, task, ws, callers, unsub, unsubDone, faults,
                   nMsgs, signalled>>
    /\ UNCHANGED <<bookVars, rateVars, clientVars>>

\* CancelledError is thrown into the task at the await it is suspended at; it
\* is no Exception, so it leaves the `async with` and ends the task
TaskCancelled(t) ==
    /\ Running(t) /\ tasks[t].cancel
    /\ tasks' = [tasks EXCEPT ![t] =
                    [LeaveSocket(@) EXCEPT !.pc = "done", !.exit = "none", !.slept = FALSE]]
    /\ UNCHANGED <<subscribed, events, task, ws, callers, unsub, unsubDone, faults,
                   nMsgs, signalled>>
    /\ UNCHANGED <<bookVars, rateVars, clientVars>>

\* unsubscribe() after `await self._task`: close the socket _ws names, then
\* _ws = None and _subscribed = None; the await of close() is taken within
\* the step
UnsubscribeTail ==
    /\ tasks' = [t \in Callers |-> IF ws = t THEN CloseSocket(tasks[t]) ELSE tasks[t]]
    /\ ws' = 0
    /\ subscribed' = 0
    /\ unsub' = [pc |-> "idle", awaiting |-> 0, result |-> NoneVal, raced |-> FALSE]
    /\ unsubDone' = ~unsub.raced

\* a call of unsubscribe(): AttributeError when no subscribe() has assigned
\* _task yet; else cancel() and await the task, which suspends unless the task
\* is done already
UnsubscribeCall ==
    /\ unsub.pc = "idle"
    /\ IF task = 0
       THEN /\ unsub' = [pc |-> "idle", awaiting |-> 0, result |-> "AttributeError",
                          raced |-> FALSE]
            /\ UNCHANGED <<subscribed, ws, tasks, unsubDone>>
       ELSE IF tasks[task].pc = "done"
       THEN UnsubscribeTail
       ELSE /\ tasks' = [tasks EXCEPT ![task].cancel = TRUE]
            /\ unsub' = [pc |-> "await_task", awaiting |-> task, result |-> "none",
                          raced |-> FALSE]
            /\ UNCHANGED <<subscribed, ws, unsubDone>>
    /\ UNCHANGED <<events, task, callers, faults, nMsgs, signalled>>
    /\ UNCHANGED <<bookVars, rateVars, clientVars>>

\* the awaited task has ended
UnsubscribeResume ==
    /\ unsub.pc = "await_task"
    /\ tasks[unsub.awaiting].pc = "done"
    /\ UnsubscribeTail
    /\ UNCHANGED <<events, task, callers, faults, nMsgs, signalled>>
    /\ UNCHANGED <<bookVars, rateVars, clientVars>>

----------------------------------------------------------------------------
(* WebSocketClient._on_message *)

\* an inbound STOMP frame: whether it holds the blank line that ends the
\* headers, its destination header, and the text of its body
Frame(blank, destination, body) ==
    [blank |-> blank, destination |-> destination, body |-> body]

\* the frames the venue delivers: an order-book batch, an order-book batch
\* with an entry that lacks its volume, a body cut short, a portfolio push, a
\* private message with neither balance nor Orders, a heart-beat (a frame
\* without headers and body), a batch without a destination header, a push
\* to a destination the client does not know, and order-book frames without
\* content and with content that is an object
WsMessages ==
    { Frame(TRUE, "/topic/orderbook", "{content: [A 10 bid 5]}"),
      Frame(TRUE, "/topic/orderbook", "{content: [A 12 ask 3, B 10 bid]}"),
      Frame(TRUE, "/topic/orderbook", "{content: [A 10"),
      Frame(TRUE, "/user/queue/private", "{balance: 100, Orders: {A: [BID 2 @ 10 #1]}}"),
      Frame(TRUE, "/user/queue/private", "{status: ok}"),
      Frame(FALSE, NoneVal, ""),
      Frame(TRUE, NoneVal, "{content: [A 10 bid 5]}"),
      Frame(TRUE, "/topic/trades", "{balance: 100, Orders: {A: [BID 2 @ 10 #1]}}"),
      Frame(TRUE, "/topic/orderbook", "{status: ok}"),
      Frame(TRUE, "/topic/orderbook", "{content: {A: 5}}") }

\* json.loads on the texts that occur on the wire: the exception raised, and
\* the type and the value of the result
json_loads(text) ==
    CASE text = "{content: [A 10 bid 5]}" ->
            [err |-> NoneVal, type |-> "dict", value |-> [content |-> "[A 10 bid 5]"]]
      [] text = "{content: [A 12 ask 3, B 10 bid]}" ->
            [err |-> NoneVal, type |-> "dict",
             value |-> [content |-> "[A 12 ask 3, B 10 bid]"]]
      [] text = "{balance: 100, Orders: {A: [BID 2 @ 10 #1]}}" ->
            [err |-> NoneVal, type |-> "dict",
             value |-> [balance |-> 100,
                        Orders |-> [t \in {"A"} |->
                                      << [volume |-> 2, price |-> 10, side |-> "BID",
                                          orderId |-> 1] >>]]]
      [] text = "{status: ok}" ->
            [err |-> NoneVal, type |-> "dict", value |-> [status |-> "ok"]]
      [] text = "{content: {A: 5}}" ->
            [err |-> NoneVal, type |-> "dict", value |-> [content |-> "{A: 5}"]]
      [] text = "{A: 5}" ->
            [err |-> NoneVal, type |-> "dict", value |-> [A |-> 5]]
      [] text = "[A 10 bid 5]" ->
            [err |-> NoneVal, type |-> "list", value |-> << Upd("A", "10", "bid", "5") >>]
      [] text = "[A 12 ask 3, B 10 bid]" ->
            [err |-> NoneVal, type |-> "list",
             value |-> << Upd("A", "12", "ask", "3"),
                          [ticker |-> "B", price |-> "10", side |-> "bid"] >>]
      [] OTHER -> [err |-> "JSONDecodeError", type |-> NoneVal, value |-> <<>>]

Routed(route, arg, err) == [route |-> route, arg |-> arg, err |-> err]

\* a frame without a destination header is taken for an order-book frame (a
\* plausible slip)
destination_DefaultTopic(message) ==
    IF message.destination = NoneVal THEN "/topic/orderbook" ELSE message.destination
\* the loop over the header lines (73-77): the value of the first line that
\* starts with "destination:", None when there is none
destination(message) == message.destination

\* _on_message up to the call it routes the frame to: "orderbook" with the
\* batch, "portfolio" with the push, "none" when the frame is passed over or
\* parsing raised
on_message(message) ==
    IF ~message.blank THEN Routed("none", <<>>, NoneVal)
    ELSE LET json_body == json_loads(message.body)
         IN  IF json_body.err # NoneVal THEN Routed("none", <<>>, json_body.err)
             ELSE IF destination(message) = "/topic/orderbook"
                        /\ "content" \in DOMAIN json_body.value
             THEN LET content == json_loads(json_body.value.content)
                  IN  IF content.err # NoneVal THEN Routed("none", <<>>, content.err)
                      ELSE IF content.type = "list"
                      THEN Routed("orderbook", content.value, NoneVal)
                      ELSE Routed("none", <<>>, NoneVal)
             ELSE IF destination(message) = "/user/queue/private"
                        /\ ("balance" \in DOMAIN json_body.value
                            \/ "Orders" \in DOMAIN json_body.value)
             THEN Routed("portfolio", [type |-> json_body.type, value |-> json_body.value],
                         NoneVal)
             ELSE Routed("none", <<>>, NoneVal)

\* a ValueError of update_volumes leaves _on_message (a plausible slip: the
\* try block ends before the routing)
MessageEscapesValueError(err) == err \in {"ValueError_keys", "ValueError_side"}
\* whether an exception raised while handling a frame leaves _on_message:
\* `except Exception` (line 95) catches each of them
MessageEscapes(err) == FALSE

\* the task after _on_message: in the read loop, or thrown out of it
AfterMessage(rec, err) ==
    IF err # NoneVal /\ MessageEscapes(err)
    THEN Failed([rec EXCEPT !.streak = Append(@, "error")])
    ELSE [rec EXCEPT !.streak = Append(@, IF err = NoneVal THEN "ok" ELSE "error")]

\* `if self._strategy: self._strategy.on_..._update()` (lines 85-86, 92-93):
\* the callbacks are `async def` methods (strategy.py 159-165), so the call
\* makes a coroutine object; the call is not awaited and the object is
\* dropped, so the body of the callback is not run
CallStrategy(cb) ==
    /\ created' = IF strategy THEN [created EXCEPT ![cb] = @ + 1] ELSE created
    /\ ran' = ran
    /\ strategy' = strategy

\* the frames received on the open sockets and not yet returned by recv()
RECURSIVE InboxTotal(_)
InboxTotal(S) ==
    IF S = {} THEN 0
    ELSE LET t == CHOOSE x \in S : TRUE
         IN  Len(tasks[t].inbox) + InboxTotal(S \ {t})

\* the venue sends a frame on a socket it has both SUBSCRIBE frames from; the
\* socket keeps it until recv() returns it (connect(..., max_queue=None),
\* line 113)
DeliverFrom(t, messages) ==
    /\ tasks[t].sock = "open"
    /\ Len(tasks[t].frames) = Len(OnOpenFrames)
    /\ nMsgs + InboxTotal(Callers) < MaxMessages
    /\ \E message \in messages :
          tasks' = [tasks EXCEPT ![t].inbox = Append(@, message)]
    /\ UNCHANGED <<subscribed, events, task, ws, callers, unsub, unsubDone, faults,
                   nMsgs, signalled>>
    /\ UNCHANGED <<bookVars, rateVars, clientVars>>

\* the venue sends any of its frames
Deliver(t) == DeliverFrom(t, WsMessages)

\* recv() returns the newest frame the socket holds (a plausible slip)
recvNewest(inbox) == Len(inbox)
\* `await ws.recv()` (line 118): the place in the inbox of the frame returned,
\* the oldest one
recv(inbox) == 1

\* the inbox without its frame k
Without(inbox, k) == SubSeq(inbox, 1, k - 1) \o SubSeq(inbox, k + 1, Len(inbox))

\* what _on_message(message) leaves of the books, the portfolio and the
\* callbacks, and the exception it caught
HandleMessage(message, err) ==
    \E r \in {on_message(message)} :
        CASE r.route = "orderbook" ->
                /\ FilteredUpdate(r.arg)
                /\ err = (IF lastResult' = "ok" THEN NoneVal ELSE lastResult')
                /\ IF lastResult' = "ok"
                   THEN CallStrategy("on_orderbook_update")
                   ELSE UNCHANGED strategyVars
                /\ UNCHANGED <<portfolioVars, cmds>>
          [] r.route = "portfolio" ->
                \E u \in {update_portfolio(PortfolioOf(balance, pnl, positions, orders),
                                           r.arg)} :
                    /\ balance' = u.portfolio.balance
                    /\ pnl' = u.portfolio.pnl
                    /\ positions' = u.portfolio.positions
                    /\ orders' = u.portfolio.orders
                    /\ lastOp' = PushOp(r.arg, u.err)
                    /\ err = u.err
                    /\ fresh' = FALSE
                    /\ IF u.err = NoneVal
                       THEN CallStrategy("on_portfolio_update")
                       ELSE UNCHANGED strategyVars
                    /\ UNCHANGED <<raw_orderbooks, orderbooks, aliased, lastResult,
                                   lastSkipped, nBatches, lastNamed, everFailed, plain>>
                    /\ UNCHANGED <<rateVars, cmds>>
          [] OTHER ->
                /\ err = r.err
                /\ UNCHANGED <<bookVars, rateVars, clientVars>>

\* the errors _on_message can catch
MessageErrors ==
    {NoneVal, "JSONDecodeError", "KeyError", "ValueError_keys", "ValueError_side"}

\* ws.recv() returns a frame and _on_message handles it; _on_message has no
\* await that suspends, so the next recv() follows in the same step
TaskMessage(t) ==
    /\ tasks[t].pc = "recv" /\ ~tasks[t].cancel
    /\ tasks[t].sock = "open"
    /\ tasks[t].inbox # <<>>
    /\ nMsgs' = nMsgs + 1
    /\ \E k \in {recv(tasks[t].inbox)} : \E err \in MessageErrors :
          /\ HandleMessage(tasks[t].inbox[k], err)
          /\ tasks' = [tasks EXCEPT ![t] =
                          AfterMessage([@ EXCEPT !.inbox = Without(@, k)], err)]
    /\ UNCHANGED <<subscribed, events, task, ws, callers, unsub, unsubDone, faults,
                   signalled>>

----------------------------------------------------------------------------
(* Specifications of the WebSocketClient *)

InitWs == BookInit({EmptyDict}) /\ RateInit /\ WsInit /\ ClientInit

\* a step of the retry loop of the _subscribe_ws task t, frames aside
TaskRun(t) ==
    \/ TaskConnectOk(t)
    \/ TaskConnectFail(t)
    \/ TaskSend(t)
    \/ TaskSendFail(t)
    \/ TaskConnectionClosed(t)
    \/ TaskRecvError(t)
    \/ TaskBackoffElapsed(t)

\* a step of the _subscribe_ws task t, its cancellation included
TaskStep(t) == TaskRun(t) \/ TaskCancelled(t)

NextWs ==
    \/ \E i \in Callers : SubscribeCall(i)
    \/ \E i \in Callers : SubscribeWake(i)
    \/ \E t \in Callers : TaskStep(t)
    \/ UnsubscribeCall
    \/ UnsubscribeResume

\* subscription, reconnection and cancellation, no frames delivered
SpecWs == InitWs /\ [][NextWs]_vars

\* the first two subscribe() calls
StreamCallers == {i \in Callers : i <= 2}

\* the read loops under inbound frames: the first two subscribe() calls with
\* their tasks, reconnection, no unsubscribe()
NextWsStream ==
    \/ \E i \in StreamCallers : SubscribeCall(i)
    \/ \E i \in StreamCallers : SubscribeWake(i)
    \/ \E t \in StreamCallers : TaskRun(t)
    \/ \E t \in StreamCallers : Deliver(t)
    \/ \E t \in StreamCallers : TaskMessage(t)
\* main.py calls set_strategy before the strategy subscribes
InitWsStream ==
    /\ BookInit({EmptyDict}) /\ RateInit /\ WsInit /\ PortfolioInit
    /\ strategy = TRUE
    /\ created = [c \in Callbacks |-> 0]
    /\ ran = [c \in Callbacks |-> 0]
    /\ cmds = <<>>
SpecWsStream == InitWsStream /\ [][NextWsStream]_vars

\* the event loop runs every task that can run; the venue and the network
\* are under no obligation (no fairness on the faults, the calls, the frames)
TaskProgress(t) ==
    \/ TaskConnectOk(t)
    \/ TaskSend(t)
    \/ TaskBackoffElapsed(t)
    \/ TaskCancelled(t)
FairWs == \A t \in StreamCallers : WF_vars(TaskProgress(t))

\* the first two subscribe() calls with their tasks, reconnection and
\* cancellation, under a fair event loop
NextWsLive ==
    \/ \E i \in StreamCallers : SubscribeCall(i)
    \/ \E i \in StreamCallers : SubscribeWake(i)
    \/ \E t \in StreamCallers : TaskStep(t)
    \/ UnsubscribeCall
    \/ UnsubscribeResume
SpecWsLive == InitWs /\ [][NextWsLive]_vars /\ FairWs

----------------------------------------------------------------------------
(* Properties of the WebSocketClient *)

IsPrefix(a, b) == Len(a) <= Len(b) /\ a = SubSeq(b, 1, Len(a))

\* C13: the frames sent on a socket are CONNECT, SUBSCRIBE order book,
\* SUBSCRIBE private queue, in this order and once each; set() is called only
\* on a socket that has sent all three, a task is in its read loop only then,
\* and a subscribe() that has returned waited on an Event set this way.
C13_HandshakeBeforeSubscribed ==
    LET handshake == <<"CONNECT", "SUBSCRIBE /topic/orderbook",
                       "SUBSCRIBE /user/queue/private">>
    IN  /\ \A t \in Callers : IsPrefix(tasks[t].frames, handshake)
        /\ \A t \in Callers :
              (tasks[t].pc = "recv" /\ tasks[t].sock = "open") => tasks[t].frames = handshake
        /\ signalled \subseteq {handshake}
        /\ events # {} => signalled # {}
        /\ \A i \in Callers : callers[i].pc = "returned" => i \in events
C13_Witness ==
    \E i \in Callers :
        /\ callers[i].pc = "returned"
        /\ faults > 0
        /\ tasks[i].pc = "recv" /\ tasks[i].sock = "open"
        /\ Len(tasks[i].frames) = 3

\* C14: a subscribe() called while _subscribed was not None (a subscription
\* pending or active) creates no task of its own.
C14_SubscribeIdempotent ==
    \A i \in Callers : callers[i].joined => tasks[i].pc = "none"

\* C15: at most one _subscribe_ws task is running, and at most one task has
\* applied inbound frames on the socket it holds.
C15_SingleReader ==
    /\ Cardinality({t \in Callers : Running(t)}) <= 1
    /\ Cardinality({t \in Callers : tasks[t].streak # <<>>}) <= 1

\* C16: once unsubscribe() has completed (and nothing has subscribed since) no
\* task is running, _ws and _subscribed are None; and a subscribe() that found
\* _subscribed None returns only after its own task has sent the three frames
\* of a handshake and set its Event.
C16_UnsubscribeDisconnects ==
    /\ unsubDone =>
          /\ \A t \in Callers : ~Running(t)
          /\ ws = 0
          /\ subscribed = 0
    /\ \A i \in Callers :
          (callers[i].pc = "returned" /\ ~callers[i].joined) =>
              /\ i \in events
              /\ Len(OnOpenFrames) = 3 /\ signalled = {OnOpenFrames}

\* C17: no socket is open once unsubscribe() has completed, and a task that is
\* outside its `async with` block (connecting, in backoff, ended) has closed
\* the socket it had opened.
C17_SocketClosedOnce ==
    /\ unsubDone => \A t \in Callers : tasks[t].sock # "open"
    /\ \A t \in Callers :
          tasks[t].pc \in {"connect", "backoff", "done"} => tasks[t].sock # "open"

\* C18: a task that is about to connect again after ConnectionClosed ended
\* its read loop has been through the backoff sleep.
C18_BackoffBeforeReconnect ==
    \A t \in Callers :
        (tasks[t].pc = "connect" /\ tasks[t].exit = "closed") => tasks[t].slept

\* C19: a task ends only by cancellation; and a task thrown out of
\* connecting, handshaking or receiving is eventually in its read loop again,
\* unless it is cancelled or unsubscribe() has left _subscribed None.
C19_RetriesUntilSubscribed ==
    /\ [](\A t \in Callers : tasks[t].pc = "done" => tasks[t].cancel)
    /\ \A t \in Callers :
          (tasks[t].exit # "none")
              ~> (tasks[t].pc \in {"recv", "done"} \/ subscribed = 0)
C19_Witness ==
    \E t \in Callers :
        /\ faults = MaxFaults
        /\ tasks[t].pc = "recv" /\ tasks[t].sock = "open"
        /\ ~tasks[t].cancel
        /\ subscribed # 0

\* C20: the delivery of a frame, whatever _on_message makes of it, leaves
\* every task where it was: in its read loop, on the same open socket, with no
\* fault and no reconnection; the frame is counted in the task's streak.
C20_BadMessageContained ==
    [][nMsgs' = nMsgs + 1 =>
          /\ faults' = faults
          /\ \A t \in Callers :
                /\ tasks'[t].pc = tasks[t].pc
                /\ tasks'[t].sock = tasks[t].sock
                /\ tasks'[t].frames = tasks[t].frames
          /\ \E t \in Callers :
                /\ tasks[t].pc = "recv" /\ tasks[t].sock = "open"
                /\ Len(tasks'[t].streak) = Len(tasks[t].streak) + 1]_vars
C20_Witness ==
    \E t \in Callers :
        /\ tasks[t].pc = "recv" /\ tasks[t].sock = "open"
        /\ tasks[t].streak = <<"error", "ok">>
        /\ everFailed
        /\ lastResult = "ok"

----------------------------------------------------------------------------
(* Properties of the inbound messages *)

\* this step is task t returning from recv() with a frame and handling it
Handles(t) ==
    /\ nMsgs' = nMsgs + 1
    /\ tasks[t].inbox # <<>>
    /\ Len(tasks'[t].inbox) = Len(tasks[t].inbox) - 1
\* the frame recv() returns to task t
Received(t) == tasks[t].inbox[recv(tasks[t].inbox)]

\* C21: a frame of the order-book topic whose content decodes to a list has
\* its updates applied to the filtered book with the portfolio's open orders
\* of that moment, and (the batch applied, a strategy registered) the body of
\* on_orderbook_update has run exactly once by the end of its handling.
C21_OrderbookCallbackRuns ==
    [][\A t \in StreamCallers :
          (Handles(t) /\ on_message(Received(t)).route = "orderbook"
                      /\ lastResult' = "ok")
              => /\ raw_orderbooks' =
                       update_volumes(raw_orderbooks, on_message(Received(t)).arg).book
                 /\ orderbooks' =
                       FilterLoop(raw_orderbooks', AllOrders(orders), 1).book
                 /\ strategy =>
                       ran'["on_orderbook_update"] = ran["on_orderbook_update"] + 1]_vars

\* C22: a frame of the private queue with a balance or an Orders key replaces
\* the portfolio from its body, and (a strategy registered) the body of
\* on_portfolio_update has run exactly once by the end of its handling; a
\* frame of the private queue with neither key changes nothing and calls no
\* callback.
C22_PortfolioCallbackRuns ==
    [][\A t \in StreamCallers :
          /\ (Handles(t) /\ on_message(Received(t)).route = "portfolio")
                => /\ PortfolioOf(balance', pnl', positions', orders') =
                         update_portfolio(PortfolioOf(balance, pnl, positions, orders),
                                          on_message(Received(t)).arg).portfolio
                   /\ strategy =>
                         ran'["on_portfolio_update"] = ran["on_portfolio_update"] + 1
          /\ (Handles(t) /\ Received(t).destination = "/user/queue/private"
                         /\ on_message(Received(t)).route = "none")
                => /\ UNCHANGED <<balance, pnl, positions, orders>>
                   /\ UNCHANGED <<created, ran>>]_vars

\* the books and the portfolio, as the inbound frames write them
Applied == <<raw_orderbooks, orderbooks, orders, balance, pnl, positions>>

\* C23: the frames of a socket are applied in the order the socket received
\* them, one per step of the read loop: a step that writes the books or the
\* portfolio is one task returning from recv() with the oldest frame of its
\* socket, the writes are those of that frame alone, the call of the callback
\* is made in the same step, and the later frames stay queued in their order.
C23_InDeliveryOrder ==
    [][/\ Applied' # Applied => \E t \in StreamCallers : Handles(t)
       /\ \A t \in StreamCallers :
             Handles(t) =>
                /\ tasks'[t].inbox = Tail(tasks[t].inbox)
                /\ \E r \in {on_message(Head(tasks[t].inbox))} :
                      CASE r.route = "orderbook" ->
                              /\ raw_orderbooks' =
                                    update_volumes(raw_orderbooks, r.arg).book
                              /\ UNCHANGED <<orders, balance, pnl, positions>>
                              /\ (strategy /\ lastResult' = "ok") =>
                                    created'["on_orderbook_update"] =
                                        created["on_orderbook_update"] + 1
                        [] r.route = "portfolio" ->
                              /\ PortfolioOf(balance', pnl', positions', orders') =
                                    update_portfolio(
                                        PortfolioOf(balance, pnl, positions, orders),
                                        r.arg).portfolio
                              /\ UNCHANGED <<raw_orderbooks, orderbooks>>
                              /\ strategy =>
                                    created'["on_portfolio_update"] =
                                        created["on_portfolio_update"] + 1
                        [] OTHER -> Applied' = Applied]_vars
\* a batch has been applied while the portfolio push received after it on the
\* same socket is still queued and has written nothing
C23_Witness ==
    \E t \in StreamCallers :
        /\ tasks[t].streak = <<"ok">>
        /\ Len(tasks[t].inbox) = 1
        /\ tasks[t].inbox[1].destination = "/user/queue/private"
        /\ nBatches = 1 /\ lastResult = "ok"
        /\ orders = EmptyDict /\ balance = 0

----------------------------------------------------------------------------
(* Properties of the portfolio *)

\* the volume of the open orders, over all tickers
RECURSIVE SumVolumes(_, _)
SumVolumes(list, i) ==
    IF i > Len(list) THEN 0 ELSE list[i].volume + SumVolumes(list, i + 1)
OrderVolume(d) == SumVolumes(AllOrders(d), 1)

\* this step is a call of `op` that writes the portfolio
Calls(op) == lastOp'.n = lastOp.n + 1 /\ lastOp'.op = op
\* the position of ticker t, a ticker never traded being flat
PositionAt(pos, t) == IF t \in DOMAIN pos THEN pos[t] ELSE Position(0, Rat(0, 1))
\* new is old after delta more (or less) at price: the quantities add up and
\* new average * new quantity = old average * old quantity + delta * price
Averaged(old, new, delta, price) ==
    /\ new.quantity = old.quantity + delta
    /\ new.averagePrice.den > 0
    /\ new.averagePrice.num * new.quantity * old.averagePrice.den =
          (old.averagePrice.num * old.quantity + delta * price * old.averagePrice.den)
              * new.averagePrice.den

\* C24: after update_portfolio with a dict that raises nothing, balance, pnl,
\* positions and the open orders are exactly what the message carries (0 and
\* empty for what it leaves out); nothing of the optimistic changes made
\* before it is left.
C24_PushReplacesAll ==
    [][(Calls("update_portfolio") /\ lastOp'.arg.type = "dict" /\ lastOp'.err = NoneVal)
          => LET value == lastOp'.arg.value
                 wire == Get(value, "Orders", EmptyDict)
             IN  /\ balance' = Get(value, "balance", 0)
                 /\ pnl' = Get(value, "pnl", 0)
                 /\ positions' = Get(value, "positions", EmptyDict)
                 /\ DOMAIN orders' = DOMAIN wire
                 /\ \A t \in DOMAIN wire :
                       /\ Len(orders'[t]) = Len(wire[t])
                       /\ \A k \in 1..Len(wire[t]) :
                             orders'[t][k] =
                                 Order(t, wire[t][k].price, wire[t][k].volume,
                                       wire[t][k].side, wire[t][k].orderId)]_vars
\* a push with a balance only has been applied over optimistic changes
C24_Witness ==
    /\ lastOp.op = "update_portfolio" /\ lastOp.overwrote
    /\ "Orders" \notin DOMAIN lastOp.arg.value
    /\ balance = 50 /\ pnl = 0
    /\ positions = EmptyDict /\ orders = EmptyDict

\* C25: a push that is not a dict, or one whose order entries lack a field,
\* leaves balance, pnl, positions and the open orders as they were.
C25_MalformedPushIgnored ==
    [][(Calls("update_portfolio")
            /\ (lastOp'.arg.type # "dict" \/ lastOp'.err # NoneVal))
          => UNCHANGED <<balance, pnl, positions, orders>>]_vars

\* C26: a fill applied by add_position leaves the position with the
\* volume-weighted running average, and with averagePrice 0 when its
\* quantity has become exactly 0.
C26_RunningAverage ==
    [][\A op \in {"place_limit", "place_market"} :
          (Calls(op) /\ lastOp'.arg.message.errorCode = 0
                     /\ lastOp'.arg.message.volumeFilled > 0)
             => LET req == lastOp'.arg.req
                    message == lastOp'.arg.message
                    price == IF op = "place_limit" THEN req.price ELSE message.price
                    old == PositionAt(positions, req.ticker)
                    new == PositionAt(positions', req.ticker)
                IN  /\ req.ticker \in DOMAIN positions'
                    /\ new.quantity # 0 =>
                          Averaged(old, new,
                                   PositionDelta(message.volumeFilled, req.is_bid), price)
                    /\ new.quantity = 0 => new.averagePrice = Rat(0, 1)]_vars
\* a position that had an average has been sold back to flat
C26_Witness ==
    /\ lastOp.op \in {"place_limit", "place_market"}
    /\ lastOp.arg.message.errorCode = 0
    /\ lastOp.arg.message.volumeFilled > 0
    /\ "A" \in DOMAIN positions
    /\ positions["A"] = Position(0, Rat(0, 1))

\* C27: after a push has been applied, a position whose quantity is 0 has
\* averagePrice 0.
C27_FlatAfterPush ==
    (lastOp.op = "update_portfolio" /\ lastOp.arg.type = "dict" /\ lastOp.err = NoneVal)
        => \A t \in DOMAIN positions :
              positions[t].quantity = 0 => positions[t].averagePrice = Rat(0, 1)

\* C28: a successful place_limit of volume v filled for f changes the
\* position by +f (bid) or -f (ask) at the limit price when f > 0 and not at
\* all otherwise, and adds one order of volume v - f, same side, price and
\* the returned id when v - f > 0 and none otherwise, so that the filled and
\* the resting volume sum to v; a successful place_market changes the
\* position at the price of the response and leaves the orders alone.
C28_OptimisticFill ==
    [][/\ (Calls("place_limit") /\ lastOp'.arg.message.errorCode = 0)
             => LET req == lastOp'.arg.req
                    f == lastOp'.arg.message.volumeFilled
                    old == PositionAt(positions, req.ticker)
                    new == PositionAt(positions', req.ticker)
                    resting == Order(req.ticker, req.price, req.volume - f,
                                     IF req.is_bid THEN "BID" ELSE "ASK",
                                     lastOp'.arg.message.orderId)
                IN  /\ IF f > 0
                       THEN /\ new.quantity = old.quantity + PositionDelta(f, req.is_bid)
                            /\ new.quantity # 0 =>
                                  Averaged(old, new, PositionDelta(f, req.is_bid),
                                           req.price)
                       ELSE positions' = positions
                    /\ IF req.volume - f > 0
                       THEN orders' = add_order(orders, resting)
                       ELSE orders' = orders
                    /\ Abs(new.quantity - old.quantity)
                          + (OrderVolume(orders') - OrderVolume(orders)) = req.volume
                    /\ UNCHANGED <<balance, pnl>>
       /\ (Calls("place_market") /\ lastOp'.arg.message.errorCode = 0)
             => LET req == lastOp'.arg.req
                    f == lastOp'.arg.message.volumeFilled
                    old == PositionAt(positions, req.ticker)
                    new == PositionAt(positions', req.ticker)
                IN  /\ IF f > 0
                       THEN new.quantity = old.quantity + PositionDelta(f, req.is_bid)
                       ELSE positions' = positions
                    /\ UNCHANGED <<orders, balance, pnl>>
       /\ \A op \in {"place_limit", "place_market"} :
             (Calls(op) /\ lastOp'.arg.message.errorCode # 0)
                => UNCHANGED <<orders, positions, balance, pnl>>]_vars
\* a limit order of 2 filled for 1: the position has moved by 1 and the last
\* open order is the remainder of 1 under the returned id
C28_Witness ==
    /\ lastOp.op = "place_limit"
    /\ lastOp.arg.message.errorCode = 0
    /\ lastOp.arg.message.volumeFilled = 1
    /\ "A" \in DOMAIN positions /\ "A" \in DOMAIN orders
    /\ Abs(positions["A"].quantity) = 1
    /\ orders["A"][Len(orders["A"])].volume = 1
    /\ orders["A"][Len(orders["A"])].id = lastOp.arg.message.orderId

----------------------------------------------------------------------------
(* The raw view of the FilteredOrderBook *)

\* C29: whatever the open orders, the raw view is the book a plain OrderBook
\* holds after the same snapshot and the same batches: the subtraction of the
\* open orders never writes to it.
C29_RawIsPlainBook == raw_orderbooks = plain
\* two batches in, the open orders have been subtracted from the snapshot and
\* the raw view still shows them
C29_Witness ==
    /\ nBatches = 2 /\ lastResult = "ok"
    /\ OrderCount(orders) > 0
    /\ ~aliased
    /\ orderbooks # raw_orderbooks
    /\ raw_orderbooks = plain

----------------------------------------------------------------------------
(* Unknown tickers *)

\* the tickers of the wire updates that line 217 refuses for their side
RefusedTickers ==
    {w["ticker"] : w \in {x \in WireUpdates : WellFormed(x) /\ Upper(x["side"]) \notin Sides}}

\* ticker t is in the book with a bids and an asks side
TwoSided(book, t) == t \in DOMAIN book /\ DOMAIN book[t] = {"bids", "asks"}

\* the queries on ticker t all return None
AllAbsent(book, t) ==
    /\ best_bid(book, t) = NoLevel
    /\ best_ask(book, t) = NoLevel
    /\ mid(book, t) = NoValue
    /\ wmid(book, t) = NoValue
    /\ spread(book, t) = NoValue

\* C31: when update_volumes applies an entry naming a ticker the raw book does
\* not hold, the ticker is in the book afterwards with both a bids and an asks
\* side, whether the level was stored or popped (volume 0); best_bid and
\* best_ask of an empty side are None, mid, wmid and spread are None while a
\* side is empty, none of them raises, and all are None when every entry
\* naming the ticker had volume 0. A batch refused for the side of an entry
\* has created the ticker of that entry, two-sided, before raising.
C31_UnknownTickerCreated ==
    [][nBatches' = nBatches + 1 =>
        /\ \A k \in Keys :
              (lastNamed'[k] # NotNamed /\ k[1] \notin DOMAIN raw_orderbooks) =>
                  LET t == k[1]
                      book == raw_orderbooks'
                  IN  /\ TwoSided(book, t)
                      /\ book[t].bids = <<>> => best_bid(book, t) = NoLevel
                      /\ book[t].asks = <<>> => best_ask(book, t) = NoLevel
                      /\ (book[t].bids = <<>> \/ book[t].asks = <<>>) =>
                            /\ mid(book, t) = NoValue
                            /\ wmid(book, t) = NoValue
                            /\ spread(book, t) = NoValue
                      /\ \A r \in {mid(book, t), wmid(book, t), spread(book, t)} :
                            r.kind # "ZeroDivisionError"
                      /\ (\A j \in Keys : j[1] = t => lastNamed'[j] \in {0, NotNamed})
                            => AllAbsent(book, t)
        /\ lastResult' = "ValueError_side" =>
              \E t \in RefusedTickers : TwoSided(raw_orderbooks', t)]_vars
\* ticker A was created by an update of volume 0 and ticker B by an update the
\* book then refused for its side: both are there, with two empty sides
C31_Witness ==
    /\ nBatches = MaxBatches
    /\ lastNamed[<<"A", "BID", 10>>] = 0
    /\ lastResult = "ValueError_side"
    /\ DOMAIN raw_orderbooks = {"A", "B"}
    /\ \A t \in {"A", "B"} :
          /\ raw_orderbooks[t] = [bids |-> <<>>, asks |-> <<>>]
          /\ AllAbsent(raw_orderbooks, t)

----------------------------------------------------------------------------
(* Frames that match no route *)

\* the frame has no blank line, or no destination header or one that names
\* neither the order-book topic nor the private queue, or it is of the
\* order-book topic and its body is an object without a content key or with
\* content that decodes to something other than a list
NoRoute(message) ==
    \/ ~message.blank
    \/ message.destination \notin {"/topic/orderbook", "/user/queue/private"}
    \/ /\ message.destination = "/topic/orderbook"
       /\ json_loads(message.body).type = "dict"
       /\ \/ "content" \notin DOMAIN json_loads(message.body).value
          \/ /\ json_loads(json_loads(message.body).value.content).err = NoneVal
             /\ json_loads(json_loads(message.body).value.content).type # "list"

\* C32: the handling of a frame that matches no route (no blank line, no or
\* an unknown destination, order-book topic without content or with content
\* that is not a list) leaves the raw book, the filtered snapshot and the
\* portfolio as they were, makes no call of update_volumes or
\* update_portfolio, and calls no strategy callback.
C32_NoRouteNoEffect ==
    [][\A t \in StreamCallers :
          (Handles(t) /\ NoRoute(Received(t))) =>
              /\ UNCHANGED <<raw_orderbooks, orderbooks, aliased>>
              /\ UNCHANGED <<orders, balance, pnl, positions>>
              /\ UNCHANGED <<nBatches, lastResult, lastOp>>
              /\ UNCHANGED <<created, ran>>]_vars
\* a batch has been applied and a frame that matched no route has been
\* handled without an exception: the book holds the batch, the portfolio was
\* never written, and the only callback called is that of the batch
C32_Witness ==
    /\ nMsgs = 2 /\ nBatches = 1 /\ lastResult = "ok"
    /\ \E t \in StreamCallers : tasks[t].streak = <<"ok", "ok">>
    /\ raw_orderbooks # EmptyDict
    /\ lastOp = NoOp
    /\ created = [c \in Callbacks |-> IF c = "on_orderbook_update" THEN 1 ELSE 0]

----------------------------------------------------------------------------
(* Properties of remove_all and of error responses *)

\* C33: after a remove_all call whose response has errorCode 0, no ticker has
\* an open order tracked, and balance, pnl and positions are what they were
\* before the call.
C33_RemoveAllClearsOrders ==
    [][(Calls("remove_all")
          /\ "errorCode" \in DOMAIN lastOp'.arg.message
          /\ lastOp'.arg.message.errorCode = 0) =>
            /\ \A t \in Tickers : t \in DOMAIN orders' => orders'[t] = <<>>
            /\ OrderCount(orders') = 0
            /\ UNCHANGED <<balance, pnl, positions>>]_vars
\* a confirmed remove_all has emptied the tracking of the orders that were
\* open when it was called, and the position and the balance are still there
C33_Witness ==
    /\ lastOp.op = "remove_all"
    /\ lastOp.arg.message = [errorCode |-> 0]
    /\ lastOp.arg.req.open > 0
    /\ orders = EmptyDict
    /\ "A" \in DOMAIN positions /\ positions["A"].quantity # 0
    /\ balance # 0

\* C34: when the response to place_limit, place_market or remove_all has an
\* errorCode other than 0, the positions and the open orders (and balance and
\* pnl) are exactly what they were before the command.
C34_ErrorNoOptimisticUpdate ==
    [][\A op \in {"place_limit", "place_market", "remove_all"} :
          (Calls(op)
             /\ "errorCode" \in DOMAIN lastOp'.arg.message
             /\ lastOp'.arg.message.errorCode # 0) =>
               /\ UNCHANGED <<positions, orders>>
               /\ UNCHANGED <<balance, pnl>>]_vars
\* a remove_all answered with an error while orders were open: they are still
\* tracked, next to a position
C34_Witness ==
    /\ lastOp.op = "remove_all"
    /\ lastOp.arg.message = [errorCode |-> 1]
    /\ lastOp.arg.req.open > 0
    /\ OrderCount(orders) = lastOp.arg.req.open
    /\ positions # EmptyDict

----------------------------------------------------------------------------
(* The slot of a command that failed *)

\* the tasks that recorded timestamp s
StampedAt(s) == {c \in 1..Len(cmds) : cmds[c].at = s}
\* the entries of the window equal to s
SlotsAt(s) == {i \in 1..Len(window) : window[i] = s}
\* the timestamps a prune at the current tick keeps
Young == {s \in 0..now : ~(s < now - TicksPerSecond)}

\* C35: a task that has forwarded its command recorded its timestamp no later
\* than the transport call started, and every timestamp not older than one
\* second is in the window once for each task that recorded it, whether the
\* task's transport call is still pending, has returned (after a response
\* with or without an error code) or has raised: a slot is given up only by
\* ageing out.
C35_SlotNeverRefunded ==
    /\ \A j \in 1..Len(sent) :
          cmds[sent[j][3]].at # NoStamp /\ cmds[sent[j][3]].at <= sent[j][2]
    /\ \A c \in 1..Len(cmds) :
          (cmds[c].pc = Forwarded \/ cmds[c].result = "awaited")
              => /\ cmds[c].at # NoStamp
                 /\ \E j \in 1..Len(sent) : sent[j][3] = c
    /\ \A s \in Young : Cardinality(SlotsAt(s)) = Cardinality(StampedAt(s))
\* the commands whose timestamps fill the window have all come back, one of
\* them by raising, and a command issued within the second after them was
\* turned away
C35_Witness ==
    /\ Len(window) = RateLimit
    /\ \A i \in 1..Len(window) : window[i] \in Young
    /\ \A c \in 1..Len(cmds) : cmds[c].pc = Returned
    /\ Cardinality({c \in 1..Len(cmds) : cmds[c].result = "awaited"}) = RateLimit
    /\ faults > 0
    /\ \E c \in 1..Len(cmds) : cmds[c].result = NoneVal /\ cmds[c].at = NoStamp
    /\ dropped = 1

----------------------------------------------------------------------------
(* The filtered snapshot under a batch that fails *)

\* C36: a FilteredOrderBook.update_volumes call that raises leaves the
\* filtered snapshot exactly as it was before the call, in every state, also
\* before the first successful update.
C36_FailedUpdateKeepsSnapshot ==
    [][(nBatches' = nBatches + 1 /\ lastResult' # "ok")
          => orderbooks' = orderbooks]_vars

----------------------------------------------------------------------------
(* The books under changes of the open orders *)

\* the pushes that carry a balance and open orders, each with all its fields
OrderPushes ==
    {message \in Pushes :
        /\ message.type = "dict"
        /\ {"balance", "Orders"} \subseteq DOMAIN message.value
        /\ \A t \in DOMAIN message.value.Orders :
              \A i \in 1..Len(message.value.Orders[t]) :
                  OrderFields \subseteq DOMAIN message.value.Orders[t][i]}

\* the book and the open orders side by side: level updates, add_order for
\* the remainder of a limit order, clear_orders after a remove_all, and
\* portfolio pushes
NextOrders ==
    \/ OnLevelMessage
    \/ AddOrder
    \/ ClearOrders
    \/ PushFrom(OrderPushes)
\* the snapshots with a level for every order to rest at
OrderSnapshots ==
    {s \in PositiveSnapshots :
        /\ "A" \in DOMAIN s
        /\ create_sorted_dict(GetItems(s["A"], "bidVolumes"), TRUE) = << <<10, 5>> >>
        /\ create_sorted_dict(GetItems(s["A"], "askVolumes"), FALSE) = << <<12, 3>> >>}
InitOrders == BookInit(OrderSnapshots) /\ RateInit /\ WsInit /\ ClientInit
SpecOrders == InitOrders /\ [][NextOrders]_vars

\* C37: a step that changes the open orders (a portfolio push, add_order
\* after a limit order, clear_orders after remove_all) leaves the raw book and
\* the filtered snapshot unchanged: the snapshot changes only in an
\* update_volumes call, and between two calls it is the raw book minus the
\* open orders as they were at the last successful call.
C37_OrdersLeaveBooks ==
    [][/\ orders' # orders => UNCHANGED <<raw_orderbooks, orderbooks>>
       /\ lastOp' # lastOp => UNCHANGED <<raw_orderbooks, orderbooks, nBatches>>
       /\ orderbooks' # orderbooks => nBatches' = nBatches + 1]_vars
\* a push has replaced the open orders since the last update_volumes call:
\* the snapshot is still the raw book minus the orders of that call, not
\* minus those of the push
C37_Witness ==
    /\ nBatches > 0 /\ lastResult = "ok" /\ ~fresh
    /\ lastOp.op = "update_portfolio"
    /\ OrderCount(orders) > 0
    /\ orderbooks # raw_orderbooks
    /\ orderbooks # FilterLoop(raw_orderbooks, AllOrders(orders), 1).book

----------------------------------------------------------------------------
(* The Subscribed signal *)

\* _subscribed is an Event and it is set
SubscribedSet == subscribed # 0 /\ subscribed \in events

\* C38: once the Subscribed signal is set it stays set through every step of
\* the client (disconnection, backoff, reconnection, cancellation, further
\* calls) except a step of unsubscribe() that leaves _subscribed None.
C38_SubscribedStaysSet ==
    [][SubscribedSet => (subscribed' = 0 \/ SubscribedSet')]_vars

----------------------------------------------------------------------------
(* Fields a push leaves out *)

\* C39: update_portfolio with a dict sets every field the dict leaves out to
\* its default, whatever the field held: balance and pnl to 0 and positions to
\* empty (a message with Orders only sets all three), and the open-order
\* tracking to empty when there is no Orders key.
C39_OmittedFieldsReset ==
    [][(Calls("update_portfolio") /\ lastOp'.arg.type = "dict")
          => LET value == lastOp'.arg.value
             IN  /\ "balance" \notin DOMAIN value => balance' = 0
                 /\ "pnl" \notin DOMAIN value => pnl' = 0
                 /\ "positions" \notin DOMAIN value => positions' = EmptyDict
                 /\ "Orders" \notin DOMAIN value => orders' = EmptyDict
                 /\ DOMAIN value = {"Orders"} =>
                       balance' = 0 /\ pnl' = 0 /\ positions' = EmptyDict]_vars
\* a push with Orders only has been applied over optimistic changes: balance
\* and pnl are 0, no position is left, and the orders are those of the push
C39_Witness ==
    /\ lastOp.op = "update_portfolio" /\ lastOp.overwrote
    /\ DOMAIN lastOp.arg.value = {"Orders"}
    /\ balance = 0 /\ pnl = 0
    /\ positions = EmptyDict
    /\ OrderCount(orders) = 1 /\ orders["A"][1].id = 2

----------------------------------------------------------------------------
(* The books and the portfolio across connections *)

\* the frames of a session: an order-book batch and a portfolio push
SessionMessages ==
    { Frame(TRUE, "/topic/orderbook", "{content: [A 10 bid 5]}"),
      Frame(TRUE, "/user/queue/private", "{balance: 100, Orders: {A: [BID 2 @ 10 #1]}}") }

\* the client over its sessions: subscribe(), the read task with its
\* reconnections and its cancellation, inbound frames, unsubscribe()
NextWsSession ==
    \/ \E i \in StreamCallers : SubscribeCall(i)
    \/ \E i \in StreamCallers : SubscribeWake(i)
    \/ \E t \in StreamCallers : TaskStep(t)
    \/ \E t \in StreamCallers : DeliverFrom(t, SessionMessages)
    \/ \E t \in StreamCallers : TaskMessage(t)
    \/ UnsubscribeCall
    \/ UnsubscribeResume
SpecWsSession == InitWsStream /\ [][NextWsSession]_vars

\* C40: every step other than the handling of an inbound frame (connecting,
\* the handshake, a closed connection, the backoff, cancellation,
\* unsubscribe(), subscribe()) leaves the raw book, the filtered snapshot and
\* the portfolio as they are, and a batch handled on a later connection is
\* applied to the book held since the earlier one.
C40_StateSurvivesReconnect ==
    [][/\ nMsgs' = nMsgs => UNCHANGED Applied
       /\ \A t \in StreamCallers :
             (Handles(t) /\ on_message(Received(t)).route = "orderbook")
                 => raw_orderbooks' =
                       update_volumes(raw_orderbooks, on_message(Received(t)).arg).book]_vars
\* the first connection delivered a push, unsubscribe() ended it, a second
\* subscribe() connected anew after a fault, and a batch handled on the new
\* connection went into the book next to the portfolio of the push
C40_Witness ==
    /\ tasks[1].pc = "done"
    /\ callers[2].pc = "returned" /\ ~callers[2].joined
    /\ tasks[2].pc = "recv" /\ tasks[2].sock = "open"
    /\ tasks[2].streak = <<"ok">>
    /\ faults > 0
    /\ nMsgs = 2 /\ nBatches = 1 /\ lastResult = "ok"
    /\ balance = 100 /\ OrderCount(orders) = 1
    /\ raw_orderbooks # EmptyDict

====
